---- MODULE Spec2Model ----
(***************************************************************************)
(* Model of the real-time multi-persona conversation pipeline:             *)
(*   backend/app/agents/agent_manager.py   (registry, speaking order,      *)
(*                                           generation of the Turns)      *)
(*   backend/app/agents/topic_analyzer.py  (keyword scoring)               *)
(*   backend/app/api/realtime_chat.py      (Round, text and audio events)  *)
(*   backend/app/services/qwen_tts_realtime.py (synthesis stream)          *)
(*   backend/app/core/multi_user_manager.py (users and their pools)        *)
(*                                                                         *)
(* Specifications:                                                         *)
(*   SpecOrder  determine_speaking_order as a function of its inputs       *)
(*   Spec       one connection running Rounds from chat messages           *)
(*   FairSpec   Spec with weak fairness on every step                      *)
(*   SpecSession one connection with chat messages and recognition results *)
(*   SpecTurns  one Round of four candidates up to its text events         *)
(*   SpecHistory the session histories under concurrent conversations      *)
(*   SpecAsr, SpecAudio  speech recognition and its audio frames           *)
(*   SpecConn   the per-connection maps with two clients                   *)
(*   SpecRegistry generation and cleanup of ephemeral personas             *)
(*   SpecGen    the persona generator over topics and backend answers      *)
(*   SpecClear  Rounds of two sessions with histories being cleared        *)
(*   SpecPool   Rounds without selection beside another session's personas *)
(*   SpecRepeated determine_speaking_order over selections with repeats    *)
(*   SpecPartial, SpecMaps  the registry with failing generation requests  *)
(*                          and with unregister_agent                      *)
(*   SpecLeave  clients that generate personas and disconnect              *)
(*   SpecStream one call of synthesize_stream and its consumer             *)
(*   SpecUsers  the users and persona pools of the MultiUserManager        *)
(***************************************************************************)
EXTENDS Integers, Sequences, FiniteSets, TLC

VARIABLES
    agents,            \* AgentManager.agents: the registered persona ids
    agent_configs,     \* the keys of AgentManager.agent_configs
    enabled,           \* ids whose agent_configs[id]['enabled'] is true
    dynamic_mentors,   \* AgentManager.dynamic_mentors: session id -> ids
    session_topics,    \* AgentManager.session_topics: session id -> topic
    agent_session,     \* agent_configs[id]['session_id'] of ephemeral personas
    selected_mentors,  \* user_sessions[client]["selected_mentors"]
    session_dynamic,   \* user_sessions[client]["dynamic_mentors"]
    dso,               \* one call of determine_speaking_order: inputs, result
    call,              \* the last call of the registry: inputs, state before
    pc,                \* position of each task that can run a Round
    user_message,      \* the utterance of the Round a task runs
    sel,               \* selected_mentors passed to the conversation
    speaking_order,    \* speaking_order of the conversation
    idx,               \* order_index + 1 of the generation loop
    skipped,           \* positions of speaking_order the loop has skipped
    responses,         \* responses of the conversation / agent_responses
    tidx,              \* index of the next text event to send
    task,              \* state of each synthesis task of the Round
    chunks,            \* chunk_count of each synthesis task
    didx,              \* index of the synthesis task the Round awaits
    sent,              \* events sent to the client while the task's Round runs
    asr_task,          \* asr_tasks[client] exists and runs
    result_processor,  \* a result processor task of the client exists
    result_queue,      \* result_queues[client]: (text, is_final) results
    orphan_processors, \* running result processors result_processors lost
    connected,         \* client is a key of active_connections
    is_listening,      \* user_sessions[client]["is_listening"]
    asr_notice,        \* asr_stop / asr_error events sent since the last start
    audio_queue,       \* user_sessions[client]["audio_queue"], if it exists
    frame_no,          \* number of audio frames the client has sent
    idle_ticks,        \* consecutive 1 s timeouts of audio_stream
    conn,              \* per-connection maps of RealtimeChatManager, by client
    gen,               \* one call of generate_mentors_for_topic
    conversation_sessions, \* AgentManager.conversation_sessions: id -> messages
    conv,              \* the calls of process_multi_agent_conversation
    conversation_history, \* BaseAgent.conversation_history of each persona
    tts,               \* one call of synthesize_stream and its consumer
    mum                \* the maps of the MultiUserManager and its last call

vars == <<agents, agent_configs, enabled, dynamic_mentors, session_topics, agent_session,
          selected_mentors,
          session_dynamic, dso, call, pc, user_message, sel, speaking_order, idx, skipped, responses,
          tidx, task, chunks, didx, sent, asr_task, result_processor,
          result_queue, orphan_processors, connected, is_listening, asr_notice,
          audio_queue, frame_no, idle_ticks, conn, gen, conversation_sessions,
          conv, conversation_history, tts, mum>>

regVars == <<agents, agent_configs, enabled, dynamic_mentors, session_topics,
             agent_session>>
probeVars == <<dso, call>>
sessVars == <<selected_mentors, session_dynamic>>
roundVars == <<pc, user_message, sel, speaking_order, idx, skipped, responses,
               tidx, task, chunks, didx, sent>>
audioVars == <<audio_queue, frame_no, idle_ticks>>
connVars == <<conn>>
genVars == <<gen>>
histVars == <<conversation_sessions, conv, conversation_history>>
streamVars == <<tts>>
poolVars == <<mum>>
extraVars == <<streamVars, poolVars>>
sideVars == <<connVars, genVars, histVars, extraVars>>
lifeVars == <<orphan_processors, connected, is_listening, asr_notice, sideVars>>
asrVars == <<asr_task, result_processor, result_queue, lifeVars, audioVars>>

----------------------------------------------------------------------------
(* Bounds of the model *)

MaxScore == 3
MaxCap == 3
MaxSel == 2
MaxChunks == 1
MaxQueue == 1
MaxOrphans == 1
MaxFrames == 22

----------------------------------------------------------------------------
(* Program constants *)

DefaultMaxParticipants == 3

\* CONFIDENCE_THRESHOLD = 0.6, kept as the fraction 6/10
ThresholdNum == 6
ThresholdDen == 10

None == "None"

\* asyncio.Queue(maxsize=20) of the recognition endpoint of asr_websocket.py
AudioQueueMaxSize == 20

\* seconds without activity after which recognize_stream means to stop
IdleTimeout == 30

\* the four personas registered by _initialize_agents, in registration order
StaticOrder == <<"buffett", "soros", "munger", "krugman">>
Statics == {StaticOrder[i] : i \in 1..Len(StaticOrder)}

\* ids of ephemeral personas; they are registered after the static ones
DynOrder == <<"dyn1", "dyn2">>
DynIds == {DynOrder[i] : i \in 1..Len(DynOrder)}

\* session id of the connection's requests: f"dynamic_{client_id}"
ClientSession == "dynamic_client"

\* topic of the generation requests
Topic == "topic"

\* insertion order of the keys of AgentManager.agents
AgentOrder == StaticOrder \o DynOrder
AgentIds == Statics \cup DynIds

\* keys of TopicAnalyzer.AGENT_EXPERTISE, in dictionary order
ExpertiseOrder == <<"buffett", "soros", "munger">>
Expertise == {ExpertiseOrder[i] : i \in 1..Len(ExpertiseOrder)}

\* An utterance is represented by the number of distinct keywords of each
\* persona's keyword list that occur in it (len(set(pattern.findall(msg)))).
Utterances == [Expertise -> 0..MaxScore]

----------------------------------------------------------------------------
(* Helpers *)

Range(s) == {s[i] : i \in 1..Len(s)}

Min(a, b) == IF a <= b THEN a ELSE b

Max(a, b) == IF a >= b THEN a ELSE b

NoDup(s) == \A i, j \in 1..Len(s) : i # j => s[i] # s[j]

\* Python s[:k], negative k counting from the end
PySliceTo(s, k) ==
    LET n == IF k >= 0 THEN Min(k, Len(s)) ELSE Max(Len(s) + k, 0)
    IN  SubSeq(s, 1, n)

\* every outcome of random.shuffle(s)
Shuffles(s) == {[i \in 1..Len(s) |-> s[p[i]]] : p \in Permutations(1..Len(s))}

\* all sequences over S of length at most n
SeqsUpTo(S, n) == UNION {[1..k -> S] : k \in 0..n}

RECURSIVE SumScores(_, _)
SumScores(scores, order) ==
    IF order = <<>> THEN 0
    ELSE scores[Head(order)] + SumScores(scores, Tail(order))

----------------------------------------------------------------------------
(* topic_analyzer.py *)

\* max(agent_scores.items(), key=score): the first key with the largest score
BestAgent(scores) ==
    LET top == CHOOSE i \in 1..Len(ExpertiseOrder) :
                 /\ \A j \in 1..Len(ExpertiseOrder) :
                        scores[ExpertiseOrder[j]] <= scores[ExpertiseOrder[i]]
                 /\ \A j \in 1..(i - 1) :
                        scores[ExpertiseOrder[j]] < scores[ExpertiseOrder[i]]
    IN  ExpertiseOrder[top]

\* confidence = best_score / total_score, kept as numerator and denominator
analyze_topic_preference(msg) ==
    IF \A a \in Expertise : msg[a] = 0
    THEN [preferred_agent |-> None, conf_num |-> 0, conf_den |-> 1]
    ELSE LET best == BestAgent(msg)
             total == SumScores(msg, ExpertiseOrder)
         IN  [preferred_agent |->
                 IF msg[best] * ThresholdDen >= ThresholdNum * total
                 THEN best ELSE None,
              conf_num |-> msg[best],
              conf_den |-> total]

----------------------------------------------------------------------------
(* agent_manager.py: registry *)

get_enabled_agents ==
    SelectSeq(AgentOrder, LAMBDA a : a \in agents /\ a \in enabled)

\* d[k] = v on a dictionary
DictSet(d, k, v) == [x \in DOMAIN d \cup {k} |-> IF x = k THEN v ELSE d[x]]

\* del d[k] on a dictionary; the empty dictionary is <<>>
DictDel(d, k) ==
    IF DOMAIN d \subseteq {k} THEN <<>>
    ELSE [x \in DOMAIN d \ {k} |-> d[x]]

\* the registry of the AgentManager as one value
Registry ==
    [agents |-> agents, agent_configs |-> agent_configs, enabled |-> enabled,
     dynamic_mentors |-> dynamic_mentors, session_topics |-> session_topics,
     agent_session |-> agent_session]

SetRegistry(reg) ==
    /\ agents' = reg.agents
    /\ agent_configs' = reg.agent_configs
    /\ enabled' = reg.enabled
    /\ dynamic_mentors' = reg.dynamic_mentors
    /\ session_topics' = reg.session_topics
    /\ agent_session' = reg.agent_session

\* unique_agent_id of generate_dynamic_mentors
unique_agent_id(session_id, original_id, suffix) ==
    "dynamic_" \o session_id \o "_" \o original_id \o "_" \o suffix

\* agent_id of DynamicMentor.__init__ for mentor_data['id'] = base_id
dynamic_mentor_agent_id(base_id, suffix) ==
    "dynamic_" \o base_id \o "_" \o suffix

RECURSIVE register_all(_, _, _)
\* the register_agent calls of generate_dynamic_mentors, one per persona
register_all(reg, session_id, ids) ==
    IF ids = <<>> THEN reg
    ELSE register_all(
           [reg EXCEPT !.agents = @ \cup {Head(ids)},
                       !.agent_configs = @ \cup {Head(ids)},
                       !.enabled = @ \cup {Head(ids)},
                       !.agent_session = DictSet(@, Head(ids), session_id)],
           session_id, Tail(ids))

\* the registry after generate_dynamic_mentors has registered the personas
\* ids for the session
registry_generated(reg, session_id, topic, ids) ==
    LET r == register_all(reg, session_id, ids)
    IN  [r EXCEPT !.dynamic_mentors = DictSet(@, session_id, ids),
                  !.session_topics = DictSet(@, session_id, topic)]

RECURSIVE unregister_all(_, _)
\* the loop of cleanup_dynamic_mentors over the ids the session owns
unregister_all(reg, ids) ==
    IF ids = <<>> THEN reg
    ELSE unregister_all(
           [reg EXCEPT !.agents = @ \ {Head(ids)},
                       !.agent_configs = @ \ {Head(ids)},
                       !.enabled = @ \ {Head(ids)},
                       !.agent_session = DictDel(@, Head(ids))],
           Tail(ids))

\* registry_cleaned forgetting the topics of the other sessions when the
\* session owns nothing
registry_cleaned_topics(reg, session_id) ==
    IF session_id \in DOMAIN reg.dynamic_mentors
    THEN LET r == unregister_all(reg, reg.dynamic_mentors[session_id])
         IN  [r EXCEPT !.dynamic_mentors = DictDel(@, session_id),
                       !.session_topics = DictDel(@, session_id)]
    ELSE [reg EXCEPT !.session_topics = <<>>]

\* the registry after cleanup_dynamic_mentors(session_id)
registry_cleaned(reg, session_id) ==
    IF session_id \in DOMAIN reg.dynamic_mentors
    THEN LET r == unregister_all(reg, reg.dynamic_mentors[session_id])
         IN  [r EXCEPT !.dynamic_mentors = DictDel(@, session_id),
                       !.session_topics = DictDel(@, session_id)]
    ELSE reg

\* candidates of determine_speaking_order
available_agent_ids(selected) ==
    IF Len(selected) > 0
    THEN SelectSeq(selected, LAMBDA a : a \in agents)
    ELSE get_enabled_agents

\* FirstSpeakers without the topic analysis: the lead is always random
FirstSpeakers_random(msg, available) == Range(available)

\* lead speakers determine_speaking_order can choose
FirstSpeakers(msg, available) ==
    LET analysis == analyze_topic_preference(msg)
    IN  IF /\ analysis.preferred_agent # None
           /\ analysis.preferred_agent \in Range(available)
           /\ analysis.conf_num * ThresholdDen >= ThresholdNum * analysis.conf_den
        THEN {analysis.preferred_agent}
        ELSE Range(available)

\* determine_speaking_order keeping max_participants of the remaining
\* speakers instead of max_participants - 1
determine_speaking_order_offbyone(msg, max_participants, selected) ==
    LET available == available_agent_ids(selected)
        maxp == Min(max_participants, Len(available))
    IN  IF available = <<>> THEN {<<>>}
        ELSE UNION {
               LET remaining == SelectSeq(available, LAMBDA a : a # first)
               IN  IF Len(selected) > 0
                   THEN {<<first>> \o r : r \in Shuffles(remaining)}
                   ELSE {<<first>> \o PySliceTo(r, maxp) :
                            r \in Shuffles(remaining)}
               : first \in FirstSpeakers(msg, available)}

\* determine_speaking_order applying the cap to an explicit selection too
determine_speaking_order_capsel(msg, max_participants, selected) ==
    LET available == available_agent_ids(selected)
        maxp == Min(max_participants, Len(available))
    IN  IF available = <<>> THEN {<<>>}
        ELSE UNION {
               LET remaining == SelectSeq(available, LAMBDA a : a # first)
               IN  {<<first>> \o PySliceTo(r, maxp - 1) :
                       r \in Shuffles(remaining)}
               : first \in FirstSpeakers(msg, available)}

\* every list determine_speaking_order can return
determine_speaking_order(msg, max_participants, selected) ==
    LET available == available_agent_ids(selected)
        maxp == Min(max_participants, Len(available))
    IN  IF available = <<>> THEN {<<>>}
        ELSE UNION {
               LET remaining == SelectSeq(available, LAMBDA a : a # first)
               IN  IF Len(selected) > 0
                   THEN {<<first>> \o r : r \in Shuffles(remaining)}
                   ELSE {<<first>> \o PySliceTo(r, maxp - 1) :
                            r \in Shuffles(remaining)}
               : first \in FirstSpeakers(msg, available)}

----------------------------------------------------------------------------
(* SpecOrder: determine_speaking_order over its inputs *)

NoRegistryCall == [op |-> "none", session_id |-> "", had_entry |-> FALSE,
                   changed |-> FALSE, repeated |-> FALSE]

NoCall == [msg |-> [a \in Expertise |-> 0], cap |-> 0, selected |-> <<>>,
           result |-> <<>>, returned |-> FALSE]

\* ids a client can put in a selection: registered, without keywords, stale
SelectableIds == {"buffett", "soros", "krugman", "dyn1"}

Runners == {"chat", "asr"}

\* client ids of the connections of the per-connection maps
Clients == {"A", "B"}

\* a client without entries in active_connections, user_sessions, asr_tasks,
\* result_queues and result_processors, and without a Round in flight
NoConnection ==
    [active |-> FALSE, session |-> FALSE, is_listening |-> FALSE,
     asr_task |-> FALSE, result_queue |-> FALSE, result_processor |-> FALSE,
     round |-> "none", orphans |-> 0]

\* generate_mentors_for_topic has not been called
NoGeneration ==
    [topic |-> <<>>, called |-> FALSE, returned |-> FALSE, raised |-> FALSE,
     result |-> <<>>,
     backend |-> [outcome |-> "none",
                  direct |-> [kind |-> "none", mentors |-> <<>>],
                  salvage |-> [kind |-> "none", mentors |-> <<>>]]]

\* the calls of process_multi_agent_conversation whose history is followed
Conversations == {"c1", "c2"}

\* no call of process_multi_agent_conversation is running
NoConversation ==
    [pc |-> "idle", session_id |-> "", user_message |-> "",
     speaking_order |-> <<>>, idx |-> 0, responses |-> <<>>]

\* no session has a history
HistoryIdle ==
    /\ conversation_sessions = <<>>
    /\ conv = [c \in Conversations |-> NoConversation]
    /\ conversation_history = [a \in Statics \cup DynIds |-> <<>>]

\* synthesize_stream at its first asyncio.sleep: the sender and the handler
\* task are created, no chunk has arrived; the consumer has sent nothing
NoStream ==
    [pc |-> "sleep", audio_chunks |-> 0, synthesis_complete |-> FALSE,
     synthesis_error |-> FALSE, last_chunk_index |-> 0, i |-> 0, stop |-> 0,
     chunk_count |-> 0, sent |-> <<>>, total_chunks |-> 0]

\* no user is known to the MultiUserManager, none of its methods was called
NoUsers ==
    [users |-> {}, user_sessions |-> <<>>, user_agent_pools |-> <<>>,
     call |-> [op |-> "none", user_id |-> "", pool |-> {}]]

\* no synthesis stream has moved, no user is known
ExtraIdle ==
    /\ tts = NoStream
    /\ mum = NoUsers

\* no audio queue: the session has no "audio_queue" key
NoAudioQueue == [exists |-> FALSE, frames |-> <<>>]

\* the connection after connect: no recognition task, no result processor;
\* no other client, no call of the persona generator
AsrIdle ==
    /\ asr_task = FALSE
    /\ result_processor = FALSE
    /\ result_queue = <<>>
    /\ orphan_processors = 0
    /\ connected = TRUE
    /\ is_listening = FALSE
    /\ asr_notice = {}
    /\ audio_queue = NoAudioQueue
    /\ frame_no = 0
    /\ idle_ticks = 0
    /\ conn = [c \in Clients |-> NoConnection]
    /\ gen = NoGeneration
    /\ HistoryIdle
    /\ ExtraIdle

RoundIdle ==
    /\ pc = [r \in Runners |-> "idle"]
    /\ user_message = [r \in Runners |-> [a \in Expertise |-> 0]]
    /\ sel = [r \in Runners |-> <<>>]
    /\ speaking_order = [r \in Runners |-> <<>>]
    /\ idx = [r \in Runners |-> 0]
    /\ skipped = [r \in Runners |-> {}]
    /\ responses = [r \in Runners |-> <<>>]
    /\ tidx = [r \in Runners |-> 0]
    /\ task = [r \in Runners |-> <<>>]
    /\ chunks = [r \in Runners |-> <<>>]
    /\ didx = [r \in Runners |-> 0]
    /\ sent = [r \in Runners |-> <<>>]

InitOrder ==
    /\ agents \in {Statics, Statics \cup DynIds}
    /\ agent_configs = agents
    /\ enabled \in SUBSET agents
    /\ DynIds \cap agents \subseteq enabled
    /\ dynamic_mentors = IF DynIds \subseteq agents
                         THEN DictSet(<<>>, ClientSession, DynOrder) ELSE <<>>
    /\ session_topics = IF DynIds \subseteq agents
                        THEN DictSet(<<>>, ClientSession, Topic) ELSE <<>>
    /\ agent_session = [a \in DynIds \cap agents |-> ClientSession]
    /\ call = NoRegistryCall
    /\ selected_mentors = <<>>
    /\ session_dynamic = <<>>
    /\ dso \in {[NoCall EXCEPT !.msg = m, !.cap = c, !.selected = s] :
                  m \in Utterances, c \in 1..MaxCap,
                  s \in SeqsUpTo(SelectableIds, MaxSel)}
    /\ RoundIdle
    /\ AsrIdle

DetermineCall ==
    /\ ~dso.returned
    /\ \E order \in determine_speaking_order(dso.msg, dso.cap, dso.selected) :
          dso' = [dso EXCEPT !.result = order, !.returned = TRUE]
    /\ UNCHANGED <<regVars, sessVars, call, roundVars, asrVars>>

NextOrder == DetermineCall

SpecOrder == InitOrder /\ [][NextOrder]_vars

\* selections of a "set_selected_mentors" message that list one of two
\* registered personas more than once; the handler stores the list as sent
RepeatedLen == 3
RepeatedSelections ==
    {s \in [1..RepeatedLen -> {"buffett", "soros"}] : ~NoDup(s)}

InitRepeated ==
    /\ agents = Statics
    /\ agent_configs = agents
    /\ enabled = Statics
    /\ dynamic_mentors = <<>>
    /\ session_topics = <<>>
    /\ agent_session = <<>>
    /\ call = NoRegistryCall
    /\ selected_mentors = <<>>
    /\ session_dynamic = <<>>
    /\ dso \in {[NoCall EXCEPT !.msg = m, !.cap = c, !.selected = s] :
                  m \in Utterances, c \in 1..MaxCap,
                  s \in RepeatedSelections}
    /\ RoundIdle
    /\ AsrIdle

\* SpecRepeated: determine_speaking_order over selections with repeated ids
SpecRepeated == InitRepeated /\ [][NextOrder]_vars

----------------------------------------------------------------------------
(* Events sent to the client (realtime_chat.py send_message) *)

Ev(type, order, agent, content, chunk) ==
    [type |-> type, order |-> order, agent_id |-> agent, content |-> content,
     chunk_index |-> chunk]

ProcessingStart == Ev("multi_agent_processing_start", 0, "", "", 0)
ProcessingComplete(n) == Ev("multi_agent_processing_complete", 0, "", "", n)
ErrorEvent == Ev("error", 0, "", "", 0)
ResponseEvent(resp) ==
    Ev("multi_agent_response", resp.order, resp.agent_id, resp.content, 0)
TtsStart(resp) == Ev("multi_agent_tts_start", resp.order, resp.agent_id, "", 0)
AudioChunk(resp, n) ==
    Ev("multi_agent_audio_chunk", resp.order, resp.agent_id, "", n)
TtsComplete(resp, n) ==
    Ev("multi_agent_tts_complete", resp.order, resp.agent_id, "", n)
TtsError(resp) == Ev("multi_agent_tts_error", resp.order, resp.agent_id, "", 0)

\* the event of stop_speech_recognition
AsrStop == Ev("asr_stop", 0, "", "", 0)

\* texts of a Turn
ReplyText == "reply"
FallbackEmpty == "fallback: cannot answer this question"
FallbackError == "fallback: cannot reply now"
SystemError == "system failure, retry later"

\* what agent.generate_response can do: return a text, return an empty or
\* blank text, raise
GenOutcomes == {"text", "blank", "raise"}

----------------------------------------------------------------------------
(* agent_manager.py: process_multi_agent_conversation *)

\* _generate_error_responses: buffett and soros if registered, otherwise the
\* first two registered personas
generate_error_responses ==
    LET defaults == SelectSeq(<<"buffett", "soros">>, LAMBDA a : a \in agents)
        available == IF defaults # <<>> THEN defaults
                     ELSE PySliceTo(SelectSeq(AgentOrder,
                                              LAMBDA a : a \in agents), 2)
    IN  [i \in 1..Len(available) |->
            [agent_id |-> available[i], content |-> SystemError, order |-> i]]

\* the reply of a Turn after generate_response has returned or raised,
\* without the check for an empty reply
agent_reply_unchecked(outcome) ==
    CASE outcome = "text" -> ReplyText
      [] outcome = "blank" -> ""
      [] outcome = "raise" -> FallbackError

\* the reply of a Turn after generate_response has returned or raised
agent_reply(outcome) ==
    CASE outcome = "text" -> ReplyText
      [] outcome = "blank" -> FallbackEmpty
      [] outcome = "raise" -> FallbackError

\* agent_configs[agent_id]['name']
agent_name(agent_id) == "name of " \o agent_id

\* conversation_mode and suggested_length of the complexity analysis
ConversationMode == "discussion"
SuggestedLength == <<120, 180>>

\* _build_agent_context with the most recent speaker taken from the wrong end
build_agent_context_first(previous_responses, is_first_speaker) ==
    IF is_first_speaker \/ previous_responses = <<>>
    THEN [is_responding |-> ~is_first_speaker,
          conversation_mode |-> ConversationMode,
          suggested_length |-> SuggestedLength]
    ELSE [is_responding |-> ~is_first_speaker,
          conversation_mode |-> ConversationMode,
          suggested_length |-> SuggestedLength,
          previous_speakers |-> <<>>,
          should_respond_to_previous |-> TRUE,
          last_speaker |->
             [agent_id |-> previous_responses[1].agent_id,
              agent_name |-> agent_name(previous_responses[1].agent_id),
              content |-> previous_responses[1].content]]

\* _build_agent_context: the context dictionary as a record of its keys
build_agent_context(previous_responses, is_first_speaker) ==
    LET context == [is_responding |-> ~is_first_speaker,
                    conversation_mode |-> ConversationMode,
                    suggested_length |-> SuggestedLength]
        last_response == previous_responses[Len(previous_responses)]
    IN  IF is_first_speaker \/ previous_responses = <<>>
        THEN context
        ELSE [is_responding |-> context.is_responding,
              conversation_mode |-> context.conversation_mode,
              suggested_length |-> context.suggested_length,
              previous_speakers |->
                  [i \in 1..Len(previous_responses) |->
                      [agent_id |-> previous_responses[i].agent_id,
                       agent_name |-> agent_name(previous_responses[i].agent_id),
                       content |-> previous_responses[i].content,
                       order |-> previous_responses[i].order]],
              should_respond_to_previous |-> TRUE,
              last_speaker |->
                  [agent_id |-> last_response.agent_id,
                   agent_name |-> agent_name(last_response.agent_id),
                   content |-> last_response.content]]

\* the context passed to generate_response by the pass of the loop that
\* task r is in
generation_context(r) == build_agent_context(responses[r], idx[r] = 1)

\* selected_mentors of process_multi_agent_chat: the session's dynamic
\* mentors that are registered, if any, else the session's selection
chat_selected_mentors ==
    LET available == SelectSeq(session_dynamic, LAMBDA a : a \in agents)
    IN  IF session_dynamic # <<>> /\ available # <<>>
        THEN available ELSE selected_mentors

\* process_multi_agent_chat up to the processing-start event
process_multi_agent_chat(r, msg) ==
    /\ pc[r] = "idle"
    /\ pc' = [pc EXCEPT ![r] = "conversation"]
    /\ user_message' = [user_message EXCEPT ![r] = msg]
    /\ sel' = [sel EXCEPT ![r] = chat_selected_mentors]
    /\ speaking_order' = [speaking_order EXCEPT ![r] = <<>>]
    /\ idx' = [idx EXCEPT ![r] = 0]
    /\ skipped' = [skipped EXCEPT ![r] = {}]
    /\ responses' = [responses EXCEPT ![r] = <<>>]
    /\ tidx' = [tidx EXCEPT ![r] = 0]
    /\ task' = [task EXCEPT ![r] = <<>>]
    /\ chunks' = [chunks EXCEPT ![r] = <<>>]
    /\ didx' = [didx EXCEPT ![r] = 0]
    /\ sent' = [sent EXCEPT ![r] = <<ProcessingStart>>]

\* process_multi_agent_conversation up to its first await: the speaking
\* order and, with no await in between, the first pass of the generation loop
\* up to the call of generate_response
conversation_begin(r) ==
    /\ pc[r] = "conversation"
    /\ \E order \in determine_speaking_order(user_message[r],
                                             DefaultMaxParticipants, sel[r]) :
          IF order = <<>>
          THEN /\ responses' = [responses EXCEPT ![r] = generate_error_responses]
               /\ tidx' = [tidx EXCEPT ![r] = 1]
               /\ pc' = [pc EXCEPT ![r] = "texts"]
               /\ UNCHANGED <<speaking_order, idx, skipped>>
          ELSE /\ speaking_order' = [speaking_order EXCEPT ![r] = order]
               /\ IF order[1] \in agents
                  THEN /\ idx' = [idx EXCEPT ![r] = 1]
                       /\ pc' = [pc EXCEPT ![r] = "generating"]
                       /\ UNCHANGED skipped
                  ELSE /\ idx' = [idx EXCEPT ![r] = 2]
                       /\ skipped' = [skipped EXCEPT ![r] = {1}]
                       /\ pc' = [pc EXCEPT ![r] = "loop"]
               /\ UNCHANGED <<responses, tidx>>
    /\ UNCHANGED <<regVars, sessVars, probeVars, user_message, sel, task,
                   chunks, didx, sent, asrVars>>

\* generation_call without the test that the persona is still registered
generation_call_unchecked(r) ==
    /\ pc[r] = "loop"
    /\ IF idx[r] > Len(speaking_order[r])
       THEN /\ pc' = [pc EXCEPT ![r] = "texts"]
            /\ tidx' = [tidx EXCEPT ![r] = 1]
       ELSE /\ pc' = [pc EXCEPT ![r] = "generating"]
            /\ UNCHANGED tidx
    /\ UNCHANGED <<regVars, sessVars, probeVars, user_message, sel,
                   speaking_order, idx, skipped, responses, task, chunks, didx,
                   sent, asrVars>>

\* one pass of the generation loop up to the call of generate_response, or
\* the return of the conversation when the loop is over
generation_call(r) ==
    /\ pc[r] = "loop"
    /\ IF idx[r] > Len(speaking_order[r])
       THEN /\ pc' = [pc EXCEPT ![r] = "texts"]
            /\ tidx' = [tidx EXCEPT ![r] = 1]
            /\ UNCHANGED <<idx, skipped>>
       ELSE IF speaking_order[r][idx[r]] \notin agents
       THEN /\ skipped' = [skipped EXCEPT ![r] = @ \cup {idx[r]}]
            /\ idx' = [idx EXCEPT ![r] = @ + 1]
            /\ UNCHANGED <<pc, tidx>>
       ELSE /\ pc' = [pc EXCEPT ![r] = "generating"]
            /\ UNCHANGED <<idx, skipped, tidx>>
    /\ UNCHANGED <<regVars, sessVars, probeVars, user_message, sel, speaking_order,
                   responses, task, chunks, didx, sent, asrVars>>

\* generation_return with the order index counted from 0
generation_return_zero_based(r, outcome) ==
    /\ pc[r] = "generating"
    /\ responses' = [responses EXCEPT ![r] =
          Append(@, [agent_id |-> speaking_order[r][idx[r]],
                     content |-> agent_reply(outcome),
                     order |-> idx[r] - 1])]
    /\ idx' = [idx EXCEPT ![r] = @ + 1]
    /\ pc' = [pc EXCEPT ![r] = "loop"]
    /\ UNCHANGED <<regVars, sessVars, probeVars, user_message, sel, speaking_order,
                   skipped, tidx, task, chunks, didx, sent, asrVars>>

\* generate_response returns or raises: the Turn is recorded
generation_return(r, outcome) ==
    /\ pc[r] = "generating"
    /\ responses' = [responses EXCEPT ![r] =
          Append(@, [agent_id |-> speaking_order[r][idx[r]],
                     content |-> agent_reply(outcome),
                     order |-> idx[r]])]
    /\ idx' = [idx EXCEPT ![r] = @ + 1]
    /\ pc' = [pc EXCEPT ![r] = "loop"]
    /\ UNCHANGED <<regVars, sessVars, probeVars, user_message, sel, speaking_order,
                   skipped, tidx, task, chunks, didx, sent, asrVars>>

\* generate_response never returns: the call carries no timeout
generation_hang(r) ==
    /\ pc[r] = "generating"
    /\ pc' = [pc EXCEPT ![r] = "generating_hung"]
    /\ UNCHANGED <<regVars, sessVars, probeVars, user_message, sel, speaking_order,
                   idx, skipped, responses, tidx, task, chunks, didx, sent,
                   asrVars>>

----------------------------------------------------------------------------
(* realtime_chat.py: text events, synthesis tasks, delivery loop *)

\* step 1 of process_multi_agent_chat: the text event of one response
send_text(r) ==
    /\ pc[r] = "texts"
    /\ tidx[r] <= Len(responses[r])
    /\ sent' = [sent EXCEPT ![r] = Append(@, ResponseEvent(responses[r][tidx[r]]))]
    /\ tidx' = [tidx EXCEPT ![r] = @ + 1]
    /\ UNCHANGED <<regVars, sessVars, probeVars, pc, user_message, sel,
                   speaking_order, idx, skipped, responses, task, chunks,
                   didx, asrVars>>

\* synthesis_tasks.sort(key=order): the task indices in the order awaited
sorted_tasks(resps) ==
    CHOOSE s \in [1..Len(resps) -> 1..Len(resps)] :
        /\ \A i, j \in 1..Len(resps) : i # j => s[i] # s[j]
        /\ \A i, j \in 1..Len(resps) :
              i < j => \/ resps[s[i]].order < resps[s[j]].order
                       \/ (resps[s[i]].order = resps[s[j]].order /\ s[i] < s[j])

\* step 2 of process_multi_agent_chat: one synthesis task per response
start_synthesis(r) ==
    /\ pc[r] = "texts"
    /\ tidx[r] > Len(responses[r])
    /\ task' = [task EXCEPT ![r] = [k \in 1..Len(responses[r]) |-> "created"]]
    /\ chunks' = [chunks EXCEPT ![r] = [k \in 1..Len(responses[r]) |-> 0]]
    /\ didx' = [didx EXCEPT ![r] = 1]
    /\ pc' = [pc EXCEPT ![r] = "deliver"]
    /\ UNCHANGED <<regVars, sessVars, probeVars, user_message, sel, speaking_order,
                   idx, skipped, responses, tidx, sent, asrVars>>

\* step 3 of process_multi_agent_chat: await the next task; an exception of
\* the task is raised by the await and handled by the except clause
await_task(r) ==
    /\ pc[r] = "deliver"
    /\ didx[r] <= Len(task[r])
    /\ LET k == sorted_tasks(responses[r])[didx[r]]
       IN  /\ task[r][k] \in {"complete", "failed", "raised"}
           /\ IF task[r][k] = "raised"
              THEN /\ sent' = [sent EXCEPT ![r] = Append(@, ErrorEvent)]
                   /\ pc' = [pc EXCEPT ![r] = "done"]
              ELSE /\ pc' = [pc EXCEPT ![r] = "sleep"]
                   /\ UNCHANGED sent
    /\ UNCHANGED <<regVars, sessVars, probeVars, user_message, sel, speaking_order,
                   idx, skipped, responses, tidx, task, chunks, didx, asrVars>>

\* the asyncio.sleep(0.2) after each awaited task
settle(r) ==
    /\ pc[r] = "sleep"
    /\ didx' = [didx EXCEPT ![r] = @ + 1]
    /\ pc' = [pc EXCEPT ![r] = "deliver"]
    /\ UNCHANGED <<regVars, sessVars, probeVars, user_message, sel, speaking_order,
                   idx, skipped, responses, tidx, task, chunks, sent, asrVars>>

\* round_complete without waiting for the synthesis tasks
round_complete_unawaited(r) ==
    /\ pc[r] = "deliver"
    /\ sent' = [sent EXCEPT ![r] = Append(@, ProcessingComplete(Len(responses[r])))]
    /\ pc' = [pc EXCEPT ![r] = "done"]
    /\ UNCHANGED <<regVars, sessVars, probeVars, user_message, sel, speaking_order,
                   idx, skipped, responses, tidx, task, chunks, didx, asrVars>>

\* the processing-complete event after the last awaited task
round_complete(r) ==
    /\ pc[r] = "deliver"
    /\ didx[r] > Len(task[r])
    /\ sent' = [sent EXCEPT ![r] = Append(@, ProcessingComplete(Len(responses[r])))]
    /\ pc' = [pc EXCEPT ![r] = "done"]
    /\ UNCHANGED <<regVars, sessVars, probeVars, user_message, sel, speaking_order,
                   idx, skipped, responses, tidx, task, chunks, didx, asrVars>>

\* process_multi_agent_chat returns to its caller: the Round's locals are gone
round_return(r) ==
    /\ pc[r] = "done"
    /\ pc' = [pc EXCEPT ![r] = "idle"]
    /\ user_message' = [user_message EXCEPT ![r] = [a \in Expertise |-> 0]]
    /\ sel' = [sel EXCEPT ![r] = <<>>]
    /\ speaking_order' = [speaking_order EXCEPT ![r] = <<>>]
    /\ idx' = [idx EXCEPT ![r] = 0]
    /\ skipped' = [skipped EXCEPT ![r] = {}]
    /\ responses' = [responses EXCEPT ![r] = <<>>]
    /\ tidx' = [tidx EXCEPT ![r] = 0]
    /\ task' = [task EXCEPT ![r] = <<>>]
    /\ chunks' = [chunks EXCEPT ![r] = <<>>]
    /\ didx' = [didx EXCEPT ![r] = 0]
    /\ sent' = [sent EXCEPT ![r] = <<>>]
    /\ UNCHANGED <<regVars, sessVars, probeVars, asrVars>>

TaskFrame == <<regVars, sessVars, probeVars, pc, user_message, sel, speaking_order,
               idx, skipped, responses, tidx, didx, asrVars>>

\* _synthesize_and_send_multi_agent_audio: the tts-start event
synth_start(r, k) ==
    /\ k \in 1..Len(task[r])
    /\ task[r][k] = "created"
    /\ task' = [task EXCEPT ![r][k] = "streaming"]
    /\ sent' = [sent EXCEPT ![r] = Append(@, TtsStart(responses[r][k]))]
    /\ UNCHANGED <<TaskFrame, chunks>>

\* one chunk yielded by synthesize_stream and sent to the client
synth_chunk(r, k) ==
    /\ k \in 1..Len(task[r])
    /\ task[r][k] = "streaming"
    /\ chunks[r][k] < MaxChunks
    /\ chunks' = [chunks EXCEPT ![r][k] = @ + 1]
    /\ sent' = [sent EXCEPT ![r] =
                  Append(@, AudioChunk(responses[r][k], chunks[r][k] + 1))]
    /\ UNCHANGED <<TaskFrame, task>>

\* synthesize_stream ends: the tts-complete event
synth_complete(r, k) ==
    /\ k \in 1..Len(task[r])
    /\ task[r][k] = "streaming"
    /\ task' = [task EXCEPT ![r][k] = "complete"]
    /\ sent' = [sent EXCEPT ![r] =
                  Append(@, TtsComplete(responses[r][k], chunks[r][k]))]
    /\ UNCHANGED <<TaskFrame, chunks>>

\* synth_fail without the except clause: the exception leaves the task
synth_fail_uncaught(r, k) ==
    /\ k \in 1..Len(task[r])
    /\ task[r][k] = "streaming"
    /\ task' = [task EXCEPT ![r][k] = "raised"]
    /\ UNCHANGED <<TaskFrame, chunks, sent>>

\* synth_fail sending the tts-error event twice
synth_fail_twice(r, k) ==
    /\ k \in 1..Len(task[r])
    /\ task[r][k] = "streaming"
    /\ task' = [task EXCEPT ![r][k] = "failed"]
    /\ sent' = [sent EXCEPT ![r] =
                  @ \o <<TtsError(responses[r][k]), TtsError(responses[r][k])>>]
    /\ UNCHANGED <<TaskFrame, chunks>>

\* synthesize_stream raises (connection, server error): the tts-error event
synth_fail(r, k) ==
    /\ k \in 1..Len(task[r])
    /\ task[r][k] = "streaming"
    /\ task' = [task EXCEPT ![r][k] = "failed"]
    /\ sent' = [sent EXCEPT ![r] = Append(@, TtsError(responses[r][k]))]
    /\ UNCHANGED <<TaskFrame, chunks>>

\* synthesize_stream never ends: neither completion, error nor timeout
synth_hang(r, k) ==
    /\ k \in 1..Len(task[r])
    /\ task[r][k] = "streaming"
    /\ task' = [task EXCEPT ![r][k] = "hung"]
    /\ UNCHANGED <<TaskFrame, chunks, sent>>

----------------------------------------------------------------------------
(* realtime_chat.py: messages handled by the receive loop of the connection. *)
(* The loop awaits each handler, so it takes no message while its own Round  *)
(* runs.                                                                     *)

ReceiveLoopFree == pc["chat"] = "idle"

\* utterance of the Rounds: no keyword of any persona, so that the lead
\* speaker is drawn at random and every order of the candidates occurs
RoundUtterances == {[a \in Expertise |-> 0]}

\* selections a client sends with set_selected_mentors
Selections == {<<>>, <<"buffett", "soros">>, <<"dyn1">>}

\* message "chat" with a non-empty text
chat_message(msg) ==
    /\ process_multi_agent_chat("chat", msg)
    /\ UNCHANGED <<regVars, sessVars, probeVars, asrVars>>

\* message "set_selected_mentors"
set_selected_mentors(s) ==
    /\ ReceiveLoopFree
    /\ selected_mentors # s
    /\ selected_mentors' = s
    /\ UNCHANGED <<regVars, session_dynamic, probeVars, roundVars, asrVars>>

\* message "generate_dynamic_mentors": generate_dynamic_mentors registers
\* the new personas, the handler stores their ids in the session
ws_generate_dynamic_mentors ==
    /\ ReceiveLoopFree
    /\ DynIds \cap agents = {}
    /\ SetRegistry(registry_generated(Registry, ClientSession, Topic, DynOrder))
    /\ session_dynamic' = DynOrder
    /\ UNCHANGED <<selected_mentors, probeVars, roundVars, asrVars>>

\* cleanup_dynamic_mentors, called for the session by the cleanup endpoint
\* of mentors.py or by a "cleanup_session_mentors" message of any connection
cleanup_dynamic_mentors ==
    /\ \E session_id \in DOMAIN dynamic_mentors :
          SetRegistry(registry_cleaned(Registry, session_id))
    /\ UNCHANGED <<sessVars, probeVars, roundVars, asrVars>>

----------------------------------------------------------------------------
(* Spec: one connection, Rounds started by chat messages *)

\* enabled personas at the start: the disable endpoint of mentors.py has
\* left one static persona enabled
InitEnabled == {{"buffett"}}

Init ==
    /\ agents = Statics
    /\ agent_configs = agents
    /\ enabled \in InitEnabled
    /\ dynamic_mentors = <<>>
    /\ session_topics = <<>>
    /\ agent_session = <<>>
    /\ selected_mentors = <<>>
    /\ session_dynamic = <<>>
    /\ dso = NoCall
    /\ call = NoRegistryCall
    /\ RoundIdle
    /\ AsrIdle

RoundStep(r) ==
    \/ conversation_begin(r)
    \/ generation_call(r)
    \/ \E outcome \in GenOutcomes : generation_return(r, outcome)
    \/ generation_hang(r)
    \/ send_text(r)
    \/ start_synthesis(r)
    \/ await_task(r)
    \/ settle(r)
    \/ round_complete(r)
    \/ round_return(r)

SynthStep(r) ==
    \/ \E k \in 1..Len(task[r]) : synth_start(r, k)
    \/ \E k \in 1..Len(task[r]) : synth_chunk(r, k)
    \/ \E k \in 1..Len(task[r]) : synth_complete(r, k)
    \/ \E k \in 1..Len(task[r]) : synth_fail(r, k)
    \/ \E k \in 1..Len(task[r]) : synth_hang(r, k)

Next ==
    \/ \E msg \in RoundUtterances : chat_message(msg)
    \/ \E s \in Selections : set_selected_mentors(s)
    \/ ws_generate_dynamic_mentors
    \/ cleanup_dynamic_mentors
    \/ RoundStep("chat")
    \/ SynthStep("chat")

Spec == Init /\ [][Next]_vars

\* every step of the Round and of its synthesis tasks is taken when it stays
\* possible: the event loop runs every task that is ready, and the backends
\* answer every call they have not left hanging
FairSpec ==
    Spec /\ WF_vars(RoundStep("chat")) /\ WF_vars(SynthStep("chat"))

----------------------------------------------------------------------------
(* SpecTurns: one Round of four candidates up to its last text event. Two    *)
(* of the candidates are ephemeral personas generated over the endpoint of   *)
(* mentors.py, which does not store their ids in the connection's session.   *)

TurnsSelection == <<"buffett", "dyn1", "soros", "dyn2">>

InitTurns ==
    /\ agents = Statics \cup DynIds
    /\ agent_configs = agents
    /\ enabled = agents
    /\ dynamic_mentors = DictSet(<<>>, ClientSession, DynOrder)
    /\ session_topics = DictSet(<<>>, ClientSession, Topic)
    /\ agent_session = [a \in DynIds |-> ClientSession]
    /\ selected_mentors = TurnsSelection
    /\ session_dynamic = <<>>
    /\ dso = NoCall
    /\ call = NoRegistryCall
    /\ RoundIdle
    /\ AsrIdle

NextTurns ==
    \/ \E msg \in RoundUtterances : chat_message(msg)
    \/ cleanup_dynamic_mentors
    \/ conversation_begin("chat")
    \/ generation_call("chat")
    \/ \E outcome \in GenOutcomes : generation_return("chat", outcome)
    \/ send_text("chat")

SpecTurns == InitTurns /\ [][NextTurns]_vars

----------------------------------------------------------------------------
(* SpecPool: Rounds of a connection without selection and without pool,      *)
(* while another session generates and cleans up ephemeral personas over     *)
(* the endpoints of mentors.py                                               *)

\* session id of the requests of the other session
OtherSession == "dynamic_other"

\* POST /dynamic/generate of mentors.py for the other session:
\* generate_dynamic_mentors registers the personas; no connection stores
\* their ids
rest_generate_dynamic_mentors ==
    /\ DynIds \cap agents = {}
    /\ SetRegistry(registry_generated(Registry, OtherSession, Topic, DynOrder))
    /\ UNCHANGED <<sessVars, probeVars, roundVars, asrVars>>

NextPool ==
    \/ \E msg \in RoundUtterances : chat_message(msg)
    \/ rest_generate_dynamic_mentors
    \/ cleanup_dynamic_mentors
    \/ conversation_begin("chat")
    \/ generation_call("chat")
    \/ \E outcome \in GenOutcomes : generation_return("chat", outcome)
    \/ send_text("chat")

SpecPool == Init /\ [][NextPool]_vars

----------------------------------------------------------------------------
(* SpecHistory: the session histories written by concurrent calls of         *)
(* process_multi_agent_conversation                                          *)

\* session ids process_multi_agent_chat passes: f"multi_agent_{client_id}",
\* or the session id a generate_dynamic_mentors message has stored
HistorySessions == {"multi_agent_A", "dynamic_A"}

\* text of the users' messages
HistoryMessages == {"question"}

\* what generate_response does in these calls: return a text, raise
HistoryOutcomes == {"text", "raise"}

\* selections of the calls: two registered personas, and one stale id
HistorySelections == {<<"buffett", "soros">>, <<"ghost">>}

\* most messages the histories hold together
MaxHistory == 6

RECURSIVE HistoryTotal(_, _)
HistoryTotal(sessions, ids) ==
    IF ids = {} THEN 0
    ELSE LET s == CHOOSE x \in ids : TRUE
         IN  Len(sessions[s]) + HistoryTotal(sessions, ids \ {s})

\* session["messages"] of the session, [] when the session is created
session_messages(sessions, session_id) ==
    IF session_id \in DOMAIN sessions THEN sessions[session_id] ELSE <<>>

UserMessage(text) == [type |-> "user", agent_id |-> "user", content |-> text]
AgentMessage(agent_id, text) ==
    [type |-> "agent", agent_id |-> agent_id, content |-> text]

\* the position of the next pass of the generation loop that reaches
\* generate_response: positions of unregistered personas are passed over
RECURSIVE next_pass(_, _)
next_pass(order, i) ==
    IF i > Len(order) \/ order[i] \in agents THEN i
    ELSE next_pass(order, i + 1)

\* conv_begin creating the session anew when it exists
conv_begin_recreate(c, session_id, text, selected) ==
    /\ conv[c].pc = "idle"
    /\ HistoryTotal(conversation_sessions, DOMAIN conversation_sessions)
          + 1 + Len(selected) <= MaxHistory
    /\ conversation_sessions' =
          DictSet(conversation_sessions, session_id, <<UserMessage(text)>>)
    /\ \E order \in determine_speaking_order([a \in Expertise |-> 0],
                                             DefaultMaxParticipants, selected) :
          conv' = [conv EXCEPT ![c] =
             [pc |-> IF order = <<>> THEN "returned" ELSE "generating",
              session_id |-> session_id, user_message |-> text,
              speaking_order |-> order, idx |-> next_pass(order, 1),
              responses |-> <<>>]]
    /\ UNCHANGED <<regVars, sessVars, probeVars, roundVars, asr_task,
                   result_processor, result_queue, orphan_processors,
                   connected, is_listening, asr_notice, audioVars, connVars,
                   genVars, conversation_history, extraVars>>

\* process_multi_agent_conversation up to its first await: the session is
\* fetched or created, the user's message is appended to its history, the
\* speaking order is determined; without an order the call returns the
\* replacement responses, which are not written to the history
conv_begin(c, session_id, text, selected) ==
    /\ conv[c].pc = "idle"
    /\ HistoryTotal(conversation_sessions, DOMAIN conversation_sessions)
          + 1 + Len(selected) <= MaxHistory
    /\ conversation_sessions' =
          DictSet(conversation_sessions, session_id,
                  Append(session_messages(conversation_sessions, session_id),
                         UserMessage(text)))
    /\ \E order \in determine_speaking_order([a \in Expertise |-> 0],
                                             DefaultMaxParticipants, selected) :
          conv' = [conv EXCEPT ![c] =
             [pc |-> IF order = <<>> THEN "returned" ELSE "generating",
              session_id |-> session_id, user_message |-> text,
              speaking_order |-> order, idx |-> next_pass(order, 1),
              responses |-> <<>>]]
    /\ UNCHANGED <<regVars, sessVars, probeVars, roundVars, asr_task,
                   result_processor, result_queue, orphan_processors,
                   connected, is_listening, asr_notice, audioVars, connVars,
                   genVars, conversation_history, extraVars>>

\* what generate_response leaves in the persona's own history: one entry
\* when the backend has answered, nothing when the call has failed
add_to_history(history, agent_id, text, outcome) ==
    IF outcome = "text"
    THEN [history EXCEPT ![agent_id] =
             Append(@, [agent_id |-> agent_id, user_message |-> text,
                        response |-> agent_reply(outcome)])]
    ELSE history

\* generate_response of a Turn returns or raises: the persona has recorded
\* a reply of its backend, the reply is appended to the history of the
\* session and to the responses, the loop goes on to its next await or
\* the call returns
conv_turn(c, outcome) ==
    /\ conv[c].pc = "generating"
    /\ LET i == conv[c].idx
           agent_id == conv[c].speaking_order[i]
           reply == agent_reply(outcome)
           next == next_pass(conv[c].speaking_order, i + 1)
       IN  /\ conversation_sessions' =
                 [conversation_sessions EXCEPT ![conv[c].session_id] =
                     Append(@, AgentMessage(agent_id, reply))]
           /\ conv' = [conv EXCEPT
                 ![c].responses = Append(@, [agent_id |-> agent_id,
                                             content |-> reply, order |-> i]),
                 ![c].idx = next,
                 ![c].pc = IF next > Len(conv[c].speaking_order)
                           THEN "returned" ELSE "generating"]
           /\ conversation_history' =
                 add_to_history(conversation_history, agent_id,
                                conv[c].user_message, outcome)
    /\ UNCHANGED <<regVars, sessVars, probeVars, roundVars, asr_task,
                   result_processor, result_queue, orphan_processors,
                   connected, is_listening, asr_notice, audioVars, connVars,
                   genVars, extraVars>>

\* the Round of the call is over: the locals of the call are gone
conv_end(c) ==
    /\ conv[c].pc = "returned"
    /\ conv' = [conv EXCEPT ![c] = NoConversation]
    /\ UNCHANGED <<regVars, sessVars, probeVars, roundVars, asr_task,
                   result_processor, result_queue, orphan_processors,
                   connected, is_listening, asr_notice, audioVars, connVars,
                   genVars, conversation_sessions, conversation_history,
                   extraVars>>

NextHistory ==
    \E c \in Conversations :
        \/ \E session_id \in HistorySessions, text \in HistoryMessages,
              selected \in HistorySelections :
                 conv_begin(c, session_id, text, selected)
        \/ \E outcome \in HistoryOutcomes : conv_turn(c, outcome)
        \/ conv_end(c)

SpecHistory == Init /\ [][NextHistory]_vars

\* clear_conversation_history: the messages of an existing session are
\* replaced by an empty list and clear_history runs on every registered
\* persona; nothing happens for an unknown session
clear_conversation_history(session_id) ==
    /\ IF session_id \in DOMAIN conversation_sessions
       THEN /\ conversation_sessions' =
                  [conversation_sessions EXCEPT ![session_id] = <<>>]
            /\ conversation_history' =
                  [a \in DOMAIN conversation_history |->
                      IF a \in agents THEN <<>> ELSE conversation_history[a]]
       ELSE UNCHANGED <<conversation_sessions, conversation_history>>
    /\ UNCHANGED <<regVars, sessVars, probeVars, roundVars, asr_task,
                   result_processor, result_queue, orphan_processors,
                   connected, is_listening, asr_notice, audioVars, connVars,
                   genVars, conv, extraVars>>

\* the call of process_multi_agent_conversation followed while histories
\* are cleared
ClearConversation == "c1"

NextClear ==
    \/ \E session_id \in HistorySessions, text \in HistoryMessages,
          selected \in HistorySelections :
             conv_begin(ClearConversation, session_id, text, selected)
    \/ \E outcome \in HistoryOutcomes : conv_turn(ClearConversation, outcome)
    \/ conv_end(ClearConversation)
    \/ \E session_id \in HistorySessions :
          clear_conversation_history(session_id)

\* SpecClear: Rounds of two sessions, one after the other, with histories
\* being cleared at any time
SpecClear == Init /\ [][NextClear]_vars

----------------------------------------------------------------------------
(* SpecSession: one connection with chat messages and speech recognition *)

\* the result processor tasks of the connection that are running
Consumers == (IF result_processor THEN 1 ELSE 0) + orphan_processors

\* message "asr_start": start_speech_recognition creates the recognition
\* task and a result processor unless a recognition task is running
start_speech_recognition ==
    /\ ReceiveLoopFree
    /\ connected
    /\ ~asr_task
    /\ result_processor => orphan_processors < MaxOrphans
    /\ asr_task' = TRUE
    /\ is_listening' = TRUE
    /\ orphan_processors' = IF result_processor THEN orphan_processors + 1
                            ELSE orphan_processors
    /\ result_processor' = TRUE
    /\ audio_queue' = [exists |-> TRUE, frames |-> <<>>]
    /\ idle_ticks' = 0
    /\ asr_notice' = {}
    /\ UNCHANGED <<regVars, sessVars, probeVars, roundVars, result_queue,
                   connected, frame_no, sideVars>>

\* stop_speech_recognition cancelling the Round of the result processor too
stop_speech_recognition_cancelling ==
    /\ ReceiveLoopFree
    /\ connected
    /\ asr_task \/ is_listening
    /\ asr_task' = FALSE
    /\ is_listening' = FALSE
    /\ audio_queue' = NoAudioQueue
    /\ idle_ticks' = 0
    /\ asr_notice' = asr_notice \cup {"asr_stop"}
    /\ pc' = [pc EXCEPT !["asr"] = "idle"]
    /\ sent' = [sent EXCEPT !["asr"] = <<>>]
    /\ UNCHANGED <<regVars, sessVars, probeVars, user_message, sel,
                   speaking_order, idx, skipped, responses, tidx, task, chunks,
                   didx, result_processor, result_queue, orphan_processors,
                   connected, frame_no, sideVars>>

\* message "asr_stop" for a session that listens or has a recognition task:
\* stop_speech_recognition cancels the recognition task; the result
\* processor is left running
stop_speech_recognition ==
    /\ ReceiveLoopFree
    /\ connected
    /\ asr_task \/ is_listening
    /\ asr_task' = FALSE
    /\ is_listening' = FALSE
    /\ audio_queue' = NoAudioQueue
    /\ idle_ticks' = 0
    /\ asr_notice' = asr_notice \cup {"asr_stop"}
    /\ sent' = [r \in Runners |->
                  IF pc[r] # "idle" THEN Append(sent[r], AsrStop) ELSE sent[r]]
    /\ UNCHANGED <<regVars, sessVars, probeVars, pc, user_message, sel,
                   speaking_order, idx, skipped, responses, tidx, task, chunks,
                   didx, result_processor, result_queue, orphan_processors,
                   connected, frame_no, sideVars>>

\* result_callback of _handle_speech_recognition: the recognition backend
\* delivers a partial or a final transcript with a non-blank text
result_callback(is_final) ==
    /\ asr_task
    /\ Len(result_queue) < MaxQueue
    /\ result_queue' = Append(result_queue, is_final)
    /\ UNCHANGED <<regVars, sessVars, probeVars, roundVars, asr_task,
                   result_processor, lifeVars, audioVars>>

\* _process_asr_results takes a partial transcript: asr_partial event
process_asr_partial ==
    /\ Consumers > 0
    /\ pc["asr"] = "idle"
    /\ result_queue # <<>>
    /\ ~Head(result_queue)
    /\ result_queue' = Tail(result_queue)
    /\ UNCHANGED <<regVars, sessVars, probeVars, roundVars, asr_task,
                   result_processor, lifeVars, audioVars>>

\* _process_asr_results takes a final transcript and awaits its Round
process_asr_final(msg) ==
    /\ Consumers > 0
    /\ result_queue # <<>>
    /\ Head(result_queue)
    /\ result_queue' = Tail(result_queue)
    /\ process_multi_agent_chat("asr", msg)
    /\ UNCHANGED <<regVars, sessVars, probeVars, asr_task, result_processor,
                   lifeVars, audioVars>>

NextSession ==
    \/ \E msg \in RoundUtterances : chat_message(msg)
    \/ start_speech_recognition
    \/ stop_speech_recognition
    \/ \E f \in BOOLEAN : result_callback(f)
    \/ process_asr_partial
    \/ \E msg \in RoundUtterances : process_asr_final(msg)
    \/ RoundStep("chat")
    \/ SynthStep("chat")
    \/ RoundStep("asr")
    \/ SynthStep("asr")

SpecSession == Init /\ [][NextSession]_vars

----------------------------------------------------------------------------
(* SpecAsr: the recognition session of one connection and the Rounds of its *)
(* final transcripts                                                        *)

\* recognize_stream raises (the connection to the backend is not set up, the
\* SDK is missing): the except clause of _handle_speech_recognition sends
\* asr_error, the finally clause removes the audio queue, the task ends
asr_backend_fails ==
    /\ asr_task
    /\ asr_task' = FALSE
    /\ asr_notice' = asr_notice \cup {"asr_error"}
    /\ audio_queue' = NoAudioQueue
    /\ idle_ticks' = 0
    /\ UNCHANGED <<regVars, sessVars, probeVars, roundVars, result_processor,
                   result_queue, orphan_processors, connected, is_listening,
                   frame_no, sideVars>>

NextAsr ==
    \/ start_speech_recognition
    \/ stop_speech_recognition
    \/ asr_backend_fails
    \/ \E f \in BOOLEAN : result_callback(f)
    \/ process_asr_partial
    \/ \E msg \in RoundUtterances : process_asr_final(msg)
    \/ RoundStep("asr")
    \/ SynthStep("asr")

SpecAsr == Init /\ [][NextAsr]_vars

\* the event loop runs every step of the Round and of its synthesis tasks
\* that stays possible
FairSpecAsr ==
    SpecAsr /\ WF_vars(RoundStep("asr")) /\ WF_vars(SynthStep("asr"))

----------------------------------------------------------------------------
(* SpecConn: the per-connection maps of RealtimeChatManager, two clients *)

ConnFrame == <<regVars, sessVars, probeVars, roundVars, asr_task,
               result_processor, result_queue, orphan_processors, connected,
               is_listening, asr_notice, audioVars, genVars, histVars,
               extraVars>>

\* connect: the entries of the client in active_connections, user_sessions
\* and result_queues
conn_connect(c) ==
    /\ ~conn[c].active
    /\ conn' = [conn EXCEPT ![c].active = TRUE, ![c].session = TRUE,
                            ![c].is_listening = FALSE,
                            ![c].result_queue = TRUE]
    /\ UNCHANGED ConnFrame

\* disconnect dropping the entries of every client
disconnected_all(cs, c) ==
    [d \in Clients |->
        [NoConnection EXCEPT !.round =
            IF cs[d].round = "asr" THEN "none" ELSE cs[d].round,
                             !.orphans = cs[d].orphans]]

\* the maps after disconnect(c): the recognition task and the result
\* processor of c are cancelled and the entries of c are deleted; the Round
\* the result processor awaits is cancelled with it; a result processor
\* whose entry was overwritten by a later start is not in the map and lives on
disconnected(cs, c) ==
    [cs EXCEPT ![c] =
        [NoConnection EXCEPT !.round =
            IF cs[c].round = "asr" THEN "none" ELSE cs[c].round,
                             !.orphans = cs[c].orphans]]

\* the receive loop of the endpoint gets WebSocketDisconnect
conn_disconnect(c) ==
    /\ conn[c].active
    /\ conn[c].round # "chat"
    /\ conn' = disconnected(conn, c)
    /\ UNCHANGED ConnFrame

\* send_message: websocket.send_text raises, the except clause calls
\* disconnect; a Round run by the receive loop goes on without its client
conn_send_failure(c) ==
    /\ conn[c].active
    /\ conn' = disconnected(conn, c)
    /\ UNCHANGED ConnFrame

\* start_speech_recognition of the client; the entry of a result processor
\* that is still running is overwritten
conn_start_recognition(c) ==
    /\ conn[c].active
    /\ conn[c].round # "chat"
    /\ ~conn[c].asr_task
    /\ conn[c].result_processor => conn[c].orphans < MaxOrphans
    /\ conn' = [conn EXCEPT ![c].asr_task = TRUE, ![c].is_listening = TRUE,
                            ![c].result_processor = TRUE,
                            ![c].orphans =
                                IF conn[c].result_processor
                                THEN @ + 1 ELSE @]
    /\ UNCHANGED ConnFrame

\* stop_speech_recognition of the client
conn_stop_recognition(c) ==
    /\ conn[c].active
    /\ conn[c].round # "chat"
    /\ conn[c].asr_task \/ conn[c].is_listening
    /\ conn' = [conn EXCEPT ![c].asr_task = FALSE, ![c].is_listening = FALSE]
    /\ UNCHANGED ConnFrame

\* process_multi_agent_chat starts for the client, awaited by the receive
\* loop ("chat") or by the result processor ("asr")
conn_round_start(c, runner) ==
    /\ conn[c].round = "none"
    /\ IF runner = "chat" THEN conn[c].active ELSE conn[c].result_processor
    /\ conn' = [conn EXCEPT ![c].round = runner]
    /\ UNCHANGED ConnFrame

\* process_multi_agent_chat returns
conn_round_end(c) ==
    /\ conn[c].round # "none"
    /\ conn' = [conn EXCEPT ![c].round = "none"]
    /\ UNCHANGED ConnFrame

NextConn ==
    \E c \in Clients :
        \/ conn_connect(c)
        \/ conn_disconnect(c)
        \/ conn_send_failure(c)
        \/ conn_start_recognition(c)
        \/ conn_stop_recognition(c)
        \/ \E runner \in Runners : conn_round_start(c, runner)
        \/ conn_round_end(c)

SpecConn == Init /\ [][NextConn]_vars

----------------------------------------------------------------------------
(* SpecAudio: audio frames of one connection with speech recognition *)

\* handle_audio_data: a binary frame of the client; it is put in the audio
\* queue when the session listens and has a queue, and is dropped otherwise
handle_audio_data ==
    /\ ReceiveLoopFree
    /\ connected
    /\ frame_no < MaxFrames
    /\ frame_no' = frame_no + 1
    /\ audio_queue' =
          IF is_listening /\ audio_queue.exists
          THEN [audio_queue EXCEPT !.frames = Append(@, frame_no + 1)]
          ELSE audio_queue
    /\ UNCHANGED <<regVars, sessVars, probeVars, roundVars, asr_task,
                   result_processor, result_queue, lifeVars, idle_ticks>>

\* audio_stream yields the oldest frame and recognize_stream sends it to
\* the backend; the activity test follows last_activity_time = time.time()
audio_stream_get ==
    /\ asr_task
    /\ is_listening
    /\ audio_queue.frames # <<>>
    /\ audio_queue' = [audio_queue EXCEPT !.frames = Tail(@)]
    /\ idle_ticks' = 0
    /\ LET since_last_activity == 0
       IN  IF since_last_activity > IdleTimeout
           THEN asr_task' = FALSE
           ELSE UNCHANGED asr_task
    /\ UNCHANGED <<regVars, sessVars, probeVars, roundVars, result_processor,
                   result_queue, lifeVars, frame_no>>

\* asyncio.wait_for(audio_queue.get(), timeout=1.0) of audio_stream times
\* out: the loop goes on as long as the session listens
audio_stream_timeout ==
    /\ asr_task
    /\ is_listening
    /\ audio_queue.frames = <<>>
    /\ idle_ticks <= IdleTimeout
    /\ idle_ticks' = idle_ticks + 1
    /\ UNCHANGED <<regVars, sessVars, probeVars, roundVars, asr_task,
                   result_processor, result_queue, lifeVars, audio_queue,
                   frame_no>>

NextAudio ==
    \/ start_speech_recognition
    \/ stop_speech_recognition
    \/ handle_audio_data
    \/ audio_stream_get
    \/ audio_stream_timeout

SpecAudio == Init /\ [][NextAudio]_vars

----------------------------------------------------------------------------
(* SpecRegistry: generation and cleanup of ephemeral personas, two sessions *)

\* session ids the clients send with their requests
RegistrySessions == {"s", "s_7"}

\* mentor_data['id'] of the generated descriptors: text chosen by the
\* generation backend
SourceIds == {"1", "7_1"}

\* outcomes of random.randint(1000, 9999) and random.randint(10000, 99999)
Suffixes4 == {"1000", "1001"}
Suffixes5 == {"10000"}

\* every id generate_dynamic_mentors can give a persona of the session
PersonaIds(session_id) ==
    {dynamic_mentor_agent_id(unique_agent_id(session_id, o, r4), r5) :
        o \in SourceIds, r4 \in Suffixes4, r5 \in Suffixes5}

\* generate_dynamic_mentors(topic, session_id) with one descriptor
registry_generate(session_id, agent_id) ==
    LET reg == registry_generated(Registry, session_id, Topic, <<agent_id>>)
    IN  /\ SetRegistry(reg)
        /\ call' = [op |-> "generate", session_id |-> session_id,
                    had_entry |-> session_id \in DOMAIN dynamic_mentors,
                    changed |-> reg # Registry, repeated |-> FALSE]
        /\ UNCHANGED <<sessVars, dso, roundVars, asrVars>>

\* generate_dynamic_mentors when the generator raises: the except clause
\* returns [] and the registry is as before
registry_generate_fails(session_id) ==
    /\ call' = [op |-> "generate_failed", session_id |-> session_id,
                had_entry |-> session_id \in DOMAIN dynamic_mentors,
                changed |-> FALSE, repeated |-> FALSE]
    /\ UNCHANGED <<regVars, sessVars, dso, roundVars, asrVars>>

\* cleanup_dynamic_mentors(session_id), for any session id
registry_cleanup(session_id) ==
    LET reg == registry_cleaned(Registry, session_id)
    IN  /\ SetRegistry(reg)
        /\ call' = [op |-> "cleanup", session_id |-> session_id,
                    had_entry |-> session_id \in DOMAIN dynamic_mentors,
                    changed |-> reg # Registry,
                    repeated |-> /\ call.op = "cleanup"
                                 /\ call.session_id = session_id]
        /\ UNCHANGED <<sessVars, dso, roundVars, asrVars>>

InitRegistry ==
    /\ agents = Statics
    /\ agent_configs = agents
    /\ enabled = Statics
    /\ dynamic_mentors = <<>>
    /\ session_topics = <<>>
    /\ agent_session = <<>>
    /\ selected_mentors = <<>>
    /\ session_dynamic = <<>>
    /\ dso = NoCall
    /\ call = NoRegistryCall
    /\ RoundIdle
    /\ AsrIdle

NextRegistry ==
    \/ \E session_id \in RegistrySessions :
          \E agent_id \in PersonaIds(session_id) :
             registry_generate(session_id, agent_id)
    \/ \E session_id \in RegistrySessions : registry_generate_fails(session_id)
    \/ \E session_id \in RegistrySessions : registry_cleanup(session_id)

SpecRegistry == InitRegistry /\ [][NextRegistry]_vars

\* generate_dynamic_mentors when the generator has returned two descriptors
\* and DynamicMentor raises for the second one (personality_traits is null):
\* the first persona is registered, the assignments to dynamic_mentors and
\* session_topics after the loop are not reached, the except clause
\* returns []
registry_generate_partial(session_id, agent_id) ==
    LET reg == register_all(Registry, session_id, <<agent_id>>)
    IN  /\ SetRegistry(reg)
        /\ call' = [op |-> "generate_failed", session_id |-> session_id,
                    had_entry |-> session_id \in DOMAIN dynamic_mentors,
                    changed |-> reg # Registry, repeated |-> FALSE]
        /\ UNCHANGED <<sessVars, dso, roundVars, asrVars>>

NextPartial ==
    \/ NextRegistry
    \/ \E session_id \in RegistrySessions :
          \E agent_id \in PersonaIds(session_id) :
             registry_generate_partial(session_id, agent_id)

\* SpecPartial: the registry under generation requests that fail before or
\* after the first registration
SpecPartial == InitRegistry /\ [][NextPartial]_vars

\* unregister_agent deleting the instance and leaving the configuration
unregister_agent_instance_only(agent_id) ==
    /\ agents' = agents \ {agent_id}
    /\ call' = [op |-> "unregister", session_id |-> "",
                had_entry |-> FALSE, changed |-> agent_id \in agents,
                repeated |-> FALSE]
    /\ UNCHANGED <<agent_configs, enabled, dynamic_mentors, session_topics,
                   agent_session, sessVars, dso, roundVars, asrVars>>

\* unregister_agent(agent_id): a registered id is deleted from agents and
\* from agent_configs; the lists of the sessions are not touched
unregister_agent(agent_id) ==
    /\ SetRegistry(IF agent_id \in agents
                   THEN unregister_all(Registry, <<agent_id>>)
                   ELSE Registry)
    /\ call' = [op |-> "unregister", session_id |-> "",
                had_entry |-> FALSE, changed |-> agent_id \in agents,
                repeated |-> FALSE]
    /\ UNCHANGED <<sessVars, dso, roundVars, asrVars>>

\* ids unregister_agent is called with: any ephemeral persona, one static
\* persona, an id that was never registered
UnregisterIds ==
    UNION {PersonaIds(session_id) : session_id \in RegistrySessions}
       \cup {"krugman", "ghost"}

NextMaps ==
    \/ NextRegistry
    \/ \E agent_id \in UnregisterIds : unregister_agent(agent_id)

\* SpecMaps: the registry under generation, cleanup and unregister_agent
SpecMaps == InitRegistry /\ [][NextMaps]_vars

\* session id of a "generate_dynamic_mentors" message of the client that
\* names none: f"dynamic_{client_id}"
conn_session_id(c) == "dynamic_" \o c

\* message "generate_dynamic_mentors" of a connected client, the generator
\* returning one descriptor: the persona is registered for the session
conn_generate_dynamic_mentors(c, agent_id) ==
    /\ conn[c].active
    /\ SetRegistry(registry_generated(Registry, conn_session_id(c), Topic,
                                      <<agent_id>>))
    /\ UNCHANGED <<sessVars, probeVars, roundVars, asrVars>>

\* message "cleanup_session_mentors" of a connected client for its session
conn_cleanup_session_mentors(c) ==
    /\ conn[c].active
    /\ SetRegistry(registry_cleaned(Registry, conn_session_id(c)))
    /\ UNCHANGED <<sessVars, probeVars, roundVars, asrVars>>

NextLeave ==
    \E c \in Clients :
        \/ conn_connect(c)
        \/ conn_disconnect(c)
        \/ \E agent_id \in PersonaIds(conn_session_id(c)) :
              conn_generate_dynamic_mentors(c, agent_id)
        \/ conn_cleanup_session_mentors(c)

\* SpecLeave: clients that connect, generate ephemeral personas, clean them
\* up and disconnect
SpecLeave == Init /\ [][NextLeave]_vars

----------------------------------------------------------------------------
(* SpecGen: dynamic_mentor_generator.py, generate_mentors_for_topic as a     *)
(* function of the topic and of what the generation backend does             *)

\* A topic is the sequence of its words. "love" is one of the keywords of the
\* philosophy templates, "ai" one of the keywords of the technology
\* templates, "stocks" is no keyword.
TopicWords == {"love", "AI", "stocks"}
MaxTopicLen == 2
Topics == SeqsUpTo(TopicWords, MaxTopicLen)

PhilosophyWords == {"love", "life", "living", "meaning", "happiness"}
TechWords == {"science", "technology", "ai", "artificial intelligence",
              "innovation"}

\* the topic _parse_mentor_features passes to the templates
ParseFallbackTopic == <<"investment", "analysis">>

\* str.lower of a word
lower(w) == IF w = "AI" THEN "ai" ELSE w

\* any(word in topic.lower() for word in words)
any_word_in(topic, words) == \E i \in 1..Len(topic) : lower(topic[i]) \in words

\* the built-in templates: four descriptors with the ids "1" to "4"
Template(kind) == [i \in 1..4 |-> [id |-> ToString(i), name |-> kind]]
get_philosophy_mentors == Template("philosophy")
get_tech_mentors == Template("tech")
get_general_mentors == Template("general")

\* _generate_fallback_mentors
generate_fallback_mentors(topic) ==
    IF any_word_in(topic, PhilosophyWords) THEN get_philosophy_mentors
    ELSE IF any_word_in(topic, TechWords) THEN get_tech_mentors
    ELSE get_general_mentors

\* descriptors of the backend's output, with an "id" key or without one
MaxMentors == 2
GeneratedMentors == {[id |-> None, name |-> "generated"],
                     [id |-> "7", name |-> "generated"]}
MentorLists == SeqsUpTo(GeneratedMentors, MaxMentors)

\* What json.loads makes of a text:
\*   "object"         a dict whose "mentors" is a list of descriptors
\*   "object_scalar"  a dict whose "mentors" is null or a number
\*   "object_other"   a dict without "mentors"
\*   "array"          a list of descriptors
\*   "scalar"         a number or null
\*   "JSONDecodeError" the text is no JSON
\*   "no_braces"      (salvage only) the text has no "{" before a "}"
Json(kind, mentors) == [kind |-> kind, mentors |-> mentors]
ObjectValues == {Json("object", m) : m \in MentorLists}
                  \cup {Json("object_scalar", <<>>), Json("object_other", <<>>)}
JsonValues == ObjectValues \cup {Json("array", m) : m \in MentorLists}
                  \cup {Json("scalar", <<>>)}
NotParsed == Json("none", <<>>)

\* What the backend does: raise, answer without content, or answer with a
\* text. A text is represented by what json.loads makes of the whole text
\* (direct) and of its part from the first "{" to the last "}" (salvage);
\* the second is looked at only when the first is no JSON, and it begins
\* with "{".
Backends ==
    {[outcome |-> "exception", direct |-> NotParsed, salvage |-> NotParsed],
     [outcome |-> "no_content", direct |-> NotParsed, salvage |-> NotParsed]}
    \cup {[outcome |-> "content", direct |-> v, salvage |-> NotParsed] :
             v \in JsonValues}
    \cup {[outcome |-> "content", direct |-> Json("JSONDecodeError", <<>>),
           salvage |-> v] :
             v \in ObjectValues \cup {Json("JSONDecodeError", <<>>),
                                      Json("no_braces", <<>>)}}

\* mentor["id"] = mentor.get("id", str(i+1)) for every descriptor
with_ids(mentors) ==
    [i \in 1..Len(mentors) |->
        IF mentors[i].id = None
        THEN [mentors[i] EXCEPT !.id = ToString(i)] ELSE mentors[i]]

Returned(value) == [status |-> "return", value |-> value]
Raised == [status |-> "raise", value |-> <<>>]

\* the if / elif / else over the parsed data; the else branch is missing
\* after the salvage
parsed_mentors(data, direct) ==
    CASE data.kind = "scalar" -> Raised
      [] data.kind = "object_scalar" -> Raised
      [] data.kind = "object" -> Returned(with_ids(data.mentors))
      [] data.kind = "array" -> Returned(with_ids(data.mentors))
      [] data.kind = "object_other" ->
            IF direct THEN Raised
            ELSE Returned(generate_fallback_mentors(ParseFallbackTopic))

\* _parse_mentor_features
parse_mentor_features(content) ==
    IF content.direct.kind # "JSONDecodeError"
    THEN parsed_mentors(content.direct, TRUE)
    ELSE IF content.salvage.kind \in {"JSONDecodeError", "no_braces"}
         THEN Returned(generate_fallback_mentors(ParseFallbackTopic))
         ELSE LET p == parsed_mentors(content.salvage, FALSE)
              IN  IF p.status = "raise"
                  THEN Returned(generate_fallback_mentors(ParseFallbackTopic))
                  ELSE p

\* generate_mentors_for_topic: whatever is raised inside the try block is
\* answered with the templates of the topic
mentors_for_topic(topic, backend) ==
    IF backend.outcome \in {"exception", "no_content"}
    THEN Returned(generate_fallback_mentors(topic))
    ELSE LET p == parse_mentor_features(backend)
         IN  IF p.status = "raise"
             THEN Returned(generate_fallback_mentors(topic))
             ELSE p

\* generate_mentors_for_topic is called: the request is sent to the backend
generate_mentors_call(backend) ==
    /\ ~gen.called
    /\ gen' = [gen EXCEPT !.called = TRUE, !.backend = backend]
    /\ UNCHANGED <<regVars, sessVars, probeVars, roundVars, asr_task,
                   result_processor, result_queue, orphan_processors,
                   connected, is_listening, asr_notice, audioVars, connVars,
                   histVars, extraVars>>

\* generate_mentors_for_topic returns
generate_mentors_for_topic ==
    /\ gen.called
    /\ ~gen.returned
    /\ LET p == mentors_for_topic(gen.topic, gen.backend)
       IN  gen' = [gen EXCEPT !.returned = TRUE,
                              !.raised = (p.status = "raise"),
                              !.result = p.value]
    /\ UNCHANGED <<regVars, sessVars, probeVars, roundVars, asr_task,
                   result_processor, result_queue, orphan_processors,
                   connected, is_listening, asr_notice, audioVars, connVars,
                   histVars, extraVars>>

InitGen ==
    /\ agents = Statics
    /\ agent_configs = agents
    /\ enabled = Statics
    /\ dynamic_mentors = <<>>
    /\ session_topics = <<>>
    /\ agent_session = <<>>
    /\ selected_mentors = <<>>
    /\ session_dynamic = <<>>
    /\ dso = NoCall
    /\ call = NoRegistryCall
    /\ RoundIdle
    /\ asr_task = FALSE
    /\ result_processor = FALSE
    /\ result_queue = <<>>
    /\ orphan_processors = 0
    /\ connected = TRUE
    /\ is_listening = FALSE
    /\ asr_notice = {}
    /\ audio_queue = NoAudioQueue
    /\ frame_no = 0
    /\ idle_ticks = 0
    /\ conn = [c \in Clients |-> NoConnection]
    /\ gen \in {[NoGeneration EXCEPT !.topic = t] : t \in Topics}
    /\ HistoryIdle
    /\ ExtraIdle

NextGen ==
    \/ \E backend \in Backends : generate_mentors_call(backend)
    \/ generate_mentors_for_topic

SpecGen == InitGen /\ [][NextGen]_vars

----------------------------------------------------------------------------
(* SpecStream: one call of synthesize_stream, consumed by                    *)
(* _synthesize_and_send_multi_agent_audio                                    *)

\* most chunks the synthesis backend produces for one text
MaxAudio == 4

StreamFrame == <<regVars, sessVars, probeVars, roundVars, asr_task,
                 result_processor, result_queue, orphan_processors, connected,
                 is_listening, asr_notice, audioVars, connVars, genVars,
                 histVars, poolVars>>

\* the generator yields audio_chunks[i] (i counted from 0) and the consumer
\* counts it and calls send_message with the chunk event
yield_chunk(t, i) ==
    [t EXCEPT !.i = i, !.chunk_count = @ + 1,
              !.sent = Append(@, [chunk |-> i + 1,
                                  chunk_index |-> t.chunk_count + 1])]

\* the generator ends or raises after its last yield: the consumer sends
\* the audio-complete event with total_chunks, or the error event
stream_end(t) ==
    IF t.synthesis_error THEN [t EXCEPT !.pc = "failed"]
    ELSE [t EXCEPT !.pc = "done", !.total_chunks = t.chunk_count]

\* the handler task runs while the generator or its consumer is suspended
HandlerRuns ==
    /\ tts.pc \in {"sleep", "sending"}
    /\ ~tts.synthesis_complete
    /\ ~tts.synthesis_error

\* handle_messages gets response.audio.delta: audio_callback appends
audio_callback ==
    /\ HandlerRuns
    /\ tts.audio_chunks < MaxAudio
    /\ tts' = [tts EXCEPT !.audio_chunks = @ + 1]
    /\ UNCHANGED StreamFrame

\* handle_messages gets session.finished and returns
handle_messages_return ==
    /\ HandlerRuns
    /\ tts' = [tts EXCEPT !.synthesis_complete = TRUE]
    /\ UNCHANGED StreamFrame

\* handle_messages gets an error event and raises
handle_messages_raise ==
    /\ HandlerRuns
    /\ tts' = [tts EXCEPT !.synthesis_error = TRUE]
    /\ UNCHANGED StreamFrame

\* asyncio.sleep(0.05) returns and the loop tests its condition: a pass over
\* the new chunks up to its first yield, or the end of the loop and the
\* chunks that are left, up to the first yield
stream_poll ==
    /\ tts.pc = "sleep"
    /\ IF ~tts.synthesis_complete /\ ~tts.synthesis_error
       THEN /\ tts.audio_chunks > tts.last_chunk_index
            /\ tts' = yield_chunk([tts EXCEPT !.pc = "sending",
                                              !.stop = tts.audio_chunks],
                                  tts.last_chunk_index)
       ELSE IF tts.audio_chunks > tts.last_chunk_index
            THEN tts' = yield_chunk([tts EXCEPT !.pc = "tail_sending",
                                               !.stop = tts.audio_chunks],
                                   tts.last_chunk_index)
            ELSE tts' = stream_end(tts)
    /\ UNCHANGED StreamFrame

\* send_message of a chunk event returns and the generator goes on after its
\* yield: the next chunk of the pass, or last_chunk_index = len(audio_chunks)
\* after the pass and the sleep
stream_resume ==
    /\ tts.pc = "sending"
    /\ IF tts.i + 1 < tts.stop
       THEN tts' = yield_chunk(tts, tts.i + 1)
       ELSE tts' = [tts EXCEPT !.last_chunk_index = tts.audio_chunks,
                               !.pc = "sleep"]
    /\ UNCHANGED StreamFrame

\* the same after the loop: the next of the chunks that were left, or the
\* end of the generator
stream_resume_tail ==
    /\ tts.pc = "tail_sending"
    /\ IF tts.i + 1 < tts.stop
       THEN tts' = yield_chunk(tts, tts.i + 1)
       ELSE tts' = stream_end(tts)
    /\ UNCHANGED StreamFrame

NextStream ==
    \/ audio_callback
    \/ handle_messages_return
    \/ handle_messages_raise
    \/ stream_poll
    \/ stream_resume
    \/ stream_resume_tail

SpecStream == Init /\ [][NextStream]_vars

----------------------------------------------------------------------------
(* SpecUsers: the users, sessions and persona pools of the MultiUserManager  *)

Users == {"u1", "u2", "u3"}
UserSessionIds == {"s1"}

PoolFrame == <<regVars, sessVars, probeVars, roundVars, asr_task,
               result_processor, result_queue, orphan_processors, connected,
               is_listening, asr_notice, audioVars, connVars, genVars,
               histVars, streamVars>>

\* the maps after get_or_create_user: a new user gets an entry in users, an
\* empty dictionary of sessions and a UserAgentPool with no personas
user_created(m, user_id) ==
    IF user_id \notin m.users
    THEN [m EXCEPT !.users = @ \cup {user_id},
                   !.user_sessions = DictSet(@, user_id, {}),
                   !.user_agent_pools = DictSet(@, user_id, {})]
    ELSE m

\* the keys of agent_pool.agents after _initialize_user_agents
initialize_user_agents(m, user_id) ==
    [m EXCEPT !.user_agent_pools[user_id] = @ \cup Statics]

get_or_create_user(user_id) ==
    /\ mum' = [user_created(mum, user_id) EXCEPT
                  !.call = [op |-> "get_or_create_user", user_id |-> user_id,
                            pool |-> {}]]
    /\ UNCHANGED PoolFrame

create_user_session(user_id, session_id) ==
    /\ LET m == user_created(mum, user_id)
       IN  mum' = [m EXCEPT
                     !.user_sessions[user_id] = @ \cup {session_id},
                     !.call = [op |-> "create_user_session",
                               user_id |-> user_id, pool |-> {}]]
    /\ UNCHANGED PoolFrame

\* get_user_agent_pool: a pool is created and filled with the static
\* personas only when the user has no entry in user_agent_pools
get_user_agent_pool(user_id) ==
    /\ LET m == IF user_id \notin DOMAIN mum.user_agent_pools
                THEN initialize_user_agents(
                        [mum EXCEPT !.user_agent_pools =
                            DictSet(@, user_id, {})], user_id)
                ELSE mum
       IN  mum' = [m EXCEPT
                     !.call = [op |-> "get_user_agent_pool",
                               user_id |-> user_id,
                               pool |-> m.user_agent_pools[user_id]]]
    /\ UNCHANGED PoolFrame

NextUsers ==
    \E user_id \in Users :
        \/ get_or_create_user(user_id)
        \/ \E session_id \in UserSessionIds :
              create_user_session(user_id, session_id)
        \/ get_user_agent_pool(user_id)

SpecUsers == Init /\ [][NextUsers]_vars

----------------------------------------------------------------------------
(* Properties of determine_speaking_order (SpecOrder) *)

C5_OrderIsPermutationOfSelection ==
    (dso.returned /\ Len(dso.selected) > 0) =>
        /\ Len(dso.result) = Len(dso.selected)
        /\ \A a \in AgentIds :
              Cardinality({i \in 1..Len(dso.result) : dso.result[i] = a})
                = Cardinality({i \in 1..Len(dso.selected) : dso.selected[i] = a})

\* C5 amended: with an explicit selection the ids of the returned order are
\* exactly the selected ids that are registered, whatever the cap; when the
\* selection lists no id twice, each of them occurs once.
C5_OrderIsRegisteredSelection ==
    (dso.returned /\ Len(dso.selected) > 0) =>
        /\ Range(dso.result) = Range(dso.selected) \cap agents
        /\ NoDup(dso.selected) => NoDup(dso.result)

\* two registered personas selected with a cap of 1: both speak
C5_Witness ==
    /\ dso.returned
    /\ dso.selected \in {<<"soros", "krugman">>, <<"krugman", "soros">>}
    /\ dso.cap = 1
    /\ Len(dso.result) = 2

\* score of a candidate: personas without a keyword list score nothing
CandidateScore(msg, a) == IF a \in Expertise THEN msg[a] ELSE 0

----------------------------------------------------------------------------
(* Properties of a Round (Spec, FairSpec) *)

EventsOf(r, type) == {i \in 1..Len(sent[r]) : sent[r][i].type = type}

EventsOfTurn(r, type, order) ==
    {i \in EventsOf(r, type) : sent[r][i].order = order}

AudioTypes == {"multi_agent_tts_start", "multi_agent_audio_chunk",
               "multi_agent_tts_complete", "multi_agent_tts_error"}

\* the synthesis of task k of the Round has failed
SynthFailed(r, k) ==
    k \in 1..Len(task[r]) /\ task[r][k] \in {"failed", "raised"}

Hung(r) ==
    \/ pc[r] = "generating_hung"
    \/ \E k \in 1..Len(task[r]) : task[r][k] = "hung"

\* C1: the audio chunk events of a Round are sent in the order of
\* (turn order index, chunk sequence): no chunk of a later turn precedes a
\* chunk of an earlier turn.
C1_AudioChunksInTurnOrder ==
    \A r \in Runners :
      \A i, j \in EventsOf(r, "multi_agent_audio_chunk") :
        i < j => \/ sent[r][i].order < sent[r][j].order
                 \/ /\ sent[r][i].order = sent[r][j].order
                    /\ sent[r][i].chunk_index < sent[r][j].chunk_index

\* C3: every started Round eventually ends, with the processing-complete
\* event or an error event as its last event.
C3_RoundEventuallyEnds ==
    \A r \in Runners :
      (pc[r] = "conversation")
        ~> (/\ pc[r] = "done"
            /\ sent[r][Len(sent[r])].type
                  \in {"multi_agent_processing_complete", "error"})

\* the candidate set of the Round was empty: no speaking order
EmptyCandidates(r) ==
    pc[r] \notin {"idle", "conversation"} /\ speaking_order[r] = <<>>

\* C7: a Round with an empty candidate set sends no persona text event and
\* no audio event, and ends with an explicit error event.
C7_EmptyCandidatesAbort ==
    \A r \in Runners :
      EmptyCandidates(r) =>
        /\ EventsOf(r, "multi_agent_response") = {}
        /\ \A t \in AudioTypes : EventsOf(r, t) = {}
        /\ pc[r] = "done" => EventsOf(r, "error") # {}

ResponsesAt(r, i) == {k \in 1..Len(responses[r]) : responses[r][k].order = i}

\* C8: every position of the speaking order the loop has handled yields
\* exactly one Turn of that persona with a non-empty text, unless the persona
\* was no longer registered; when the conversation returns, every position
\* has been handled, whatever the outcome of the earlier generations; a
\* position is skipped only when its persona is not registered.
C8_TurnsState ==
    \A r \in Runners :
      speaking_order[r] # <<>> =>
        /\ \A i \in 1..(idx[r] - 1) :
             IF i \in skipped[r]
             THEN ResponsesAt(r, i) = {}
             ELSE /\ Cardinality(ResponsesAt(r, i)) = 1
                  /\ \A k \in ResponsesAt(r, i) :
                       /\ responses[r][k].agent_id = speaking_order[r][i]
                       /\ responses[r][k].content # ""
        /\ pc[r] \in {"texts", "deliver", "sleep", "done"}
              => idx[r] = Len(speaking_order[r]) + 1

C8_SkipOnlyUnregistered ==
    \A r \in Runners :
      (skipped'[r] \ skipped[r] # {}) =>
          speaking_order[r][idx[r]] \notin agents

C8_FallbackKeepsRound == [](C8_TurnsState) /\ [][C8_SkipOnlyUnregistered]_vars

\* the first generation raised, the second Turn was generated all the same
C8_Witness ==
    /\ pc["chat"] = "done"
    /\ Len(responses["chat"]) = 2
    /\ responses["chat"][1].content = FallbackError
    /\ responses["chat"][2].content = ReplyText

\* C9: a failed synthesis sends a per-turn error event; when the Round is
\* over, every Turn has its terminal audio event, the chunks of every
\* completed Turn have been sent and the processing-complete event is the
\* last event; and the Round does come to its end unless a call hangs.
C9_State ==
    \A r \in Runners : \A k \in 1..Len(task[r]) :
      SynthFailed(r, k) =>
        /\ EventsOfTurn(r, "multi_agent_tts_error", responses[r][k].order) # {}
        /\ pc[r] = "done" =>
             /\ sent[r][Len(sent[r])] = ProcessingComplete(Len(responses[r]))
             /\ \A j \in 1..Len(task[r]) :
                  /\ task[r][j] \in {"complete", "failed"}
                  /\ task[r][j] = "complete" =>
                       /\ EventsOfTurn(r, "multi_agent_tts_complete",
                                       responses[r][j].order) # {}
                       /\ Cardinality(EventsOfTurn(r, "multi_agent_audio_chunk",
                                       responses[r][j].order)) = chunks[r][j]

C9_FailedTurnDoesNotBlock ==
    /\ [](C9_State)
    /\ \A r \in Runners :
         (\E k \in 1..Len(task[r]) : SynthFailed(r, k))
            ~> (pc[r] = "done" \/ Hung(r))

\* the first Turn failed, the second was delivered, the Round is complete
C9_Witness ==
    /\ pc["chat"] = "done"
    /\ Len(task["chat"]) = 2
    /\ task["chat"][1] = "failed"
    /\ task["chat"][2] = "complete"
    /\ chunks["chat"][2] = MaxChunks

\* C10 as stated: no audio chunk of a failed Turn is sent; one error event;
\* one text event.
C10_FailedTurnHasNoAudio ==
    \A r \in Runners : \A k \in 1..Len(task[r]) :
      SynthFailed(r, k) =>
        LET o == responses[r][k].order
        IN  /\ EventsOfTurn(r, "multi_agent_audio_chunk", o) = {}
            /\ Cardinality(EventsOfTurn(r, "multi_agent_tts_error", o)) = 1
            /\ Cardinality(EventsOfTurn(r, "multi_agent_response", o)) = 1

\* C10 amended: a failed Turn gets exactly one error event, no
\* audio-complete event and no audio chunk after the error event (chunks
\* produced before the failure have been sent); its text event was sent once,
\* before any of its audio events.
C10_FailedTurnAudioCutOff ==
    \A r \in Runners : \A k \in 1..Len(task[r]) :
      SynthFailed(r, k) =>
        LET o == responses[r][k].order
        IN  /\ Cardinality(EventsOfTurn(r, "multi_agent_tts_error", o)) = 1
            /\ EventsOfTurn(r, "multi_agent_tts_complete", o) = {}
            /\ \A e \in EventsOfTurn(r, "multi_agent_tts_error", o) :
                 \A c \in EventsOfTurn(r, "multi_agent_audio_chunk", o) : c < e
            /\ Cardinality(EventsOfTurn(r, "multi_agent_response", o)) = 1
            /\ \A t \in EventsOfTurn(r, "multi_agent_response", o) :
                 \A a \in AudioTypes : \A e \in EventsOfTurn(r, a, o) : t < e

\* a Turn failed after a chunk of it had been sent
C10_Witness ==
    /\ pc["chat"] = "done"
    /\ \E k \in 1..Len(task["chat"]) :
         /\ task["chat"][k] = "failed"
         /\ chunks["chat"][k] >= 1

----------------------------------------------------------------------------
(* Properties of a session (SpecSession) *)

RoundRunning(r) == pc[r] \notin {"idle", "done"}

\* C2: a session runs at most one Round at a time, whether the Round comes
\* from a chat message or from a final transcript.
C2_OneRoundAtATime ==
    Cardinality({r \in Runners : RoundRunning(r)}) <= 1

----------------------------------------------------------------------------
(* Properties of the ephemeral personas (SpecRegistry) *)

\* C11: ids generated for two sessions with distinct session ids never
\* collide: no id a session owns is an id another session owns, for every
\* choice of the random suffixes and of the source ids.
C11_NoCrossSessionCollision ==
    \A s1, s2 \in DOMAIN dynamic_mentors :
        s1 # s2 => Range(dynamic_mentors[s1]) \cap Range(dynamic_mentors[s2]) = {}

\* C12: after cleanup of a session completes, the session has no ownership
\* entry and no topic entry, and no persona registered for the session is
\* left in the registry, however many generation requests came before.
C12_CleanupRemovesAll ==
    call.op = "cleanup" =>
        /\ call.session_id \notin DOMAIN dynamic_mentors
        /\ call.session_id \notin DOMAIN session_topics
        /\ \A a \in agents \cap DOMAIN agent_session :
               agent_session[a] # call.session_id

----------------------------------------------------------------------------
(* Ephemeral personas and Rounds (Spec) *)

\* a step of the Round with which a persona is scheduled or a generation starts
C14_Step ==
    \A r \in Runners :
        /\ (pc[r] = "conversation" /\ pc'[r] \in {"loop", "generating"}) =>
               Range(speaking_order'[r]) \subseteq agents
        /\ (pc[r] # "generating" /\ pc'[r] = "generating") =>
               speaking_order'[r][idx'[r]] \in agents

----------------------------------------------------------------------------
(* Speech recognition: audio frames (SpecAudio) *)

\* C15: when recognition has been started and no audio frame has arrived for
\* longer than the idle timeout, the recognition session is stopped (the
\* session no longer listens) and the recognition-stopped event was sent.
C15_IdleTimeoutStops ==
    idle_ticks > IdleTimeout =>
        (~is_listening /\ ~asr_task /\ "asr_stop" \in asr_notice)

\* C16: the audio queue of a connection has a bounded capacity that its
\* length never exceeds; a frame arriving at a full queue replaces the oldest.
C16_AudioQueueBounded ==
    Len(audio_queue.frames) <= AudioQueueMaxSize

----------------------------------------------------------------------------
(* Speech recognition: tasks of the recognition session (SpecAsr) *)

\* C17: at no time do two result processor tasks of a connection exist,
\* across any sequence of start and stop requests.
C17_OneResultConsumer == Consumers <= 1

\* C18: after an explicit stop the recognition session is stopped and none
\* of its tasks runs: neither the recognition task nor a result processor.
C18_StopCancelsTasks ==
    "asr_stop" \in asr_notice =>
        (~is_listening /\ ~asr_task /\ Consumers = 0)

\* a step of stop_speech_recognition
StopStep == asr_notice' # asr_notice /\ "asr_stop" \in asr_notice'

\* stop_speech_recognition leaves a running Round as it is
C19_Step ==
    StopStep =>
        /\ UNCHANGED <<pc, user_message, sel, speaking_order, idx, skipped,
                       responses, tidx, task, chunks, didx>>
        /\ \A r \in Runners :
              SubSeq(sent'[r], 1, Len(sent[r])) = sent[r]

\* the Round has sent its round-complete event, every Turn has its text and
\* the end of its audio
RoundCompleted(r) ==
    /\ pc[r] = "done"
    /\ sent[r][Len(sent[r])] = ProcessingComplete(Len(responses[r]))
    /\ Len(responses[r]) = Len(speaking_order[r])
    /\ \A k \in 1..Len(task[r]) : task[r][k] \in {"complete", "failed"}

\* C19: stopping recognition does not cancel a Round that has started: the
\* Round of a final transcript that is running when recognition is stopped
\* goes on through all its Turns and sends its round-complete event (unless
\* a backend call of the Round never returns).
C19_StopKeepsRound ==
    /\ [][C19_Step]_vars
    /\ (RoundRunning("asr") /\ EventsOf("asr", "asr_stop") # {})
          ~> (RoundCompleted("asr") \/ Hung("asr"))

\* recognition was stopped after the Round's start and before its text
\* event; the Round has completed with the text and the audio of its Turn
C19_Witness ==
    /\ RoundCompleted("asr")
    /\ Len(responses["asr"]) = 1
    /\ task["asr"][1] = "complete"
    /\ \E i \in EventsOf("asr", "asr_stop") :
          \A j \in EventsOf("asr", "multi_agent_response") : i < j

\* C20: after a failure of the recognition backend the session is stopped:
\* the client has the error event, the session is not marked as listening and
\* no recognition task runs, so that the next start begins a new session.
C20_BackendFailureStops ==
    "asr_error" \in asr_notice => (~is_listening /\ ~asr_task)

----------------------------------------------------------------------------
(* Text events of a Round (Spec) *)

\* C21: the text event of a Turn is sent as soon as the Turn's text exists:
\* while the generation of a later Turn runs, every Turn already generated
\* has had its text event sent.
C21_TextSentBeforeLaterGeneration ==
    \A r \in Runners :
        pc[r] \in {"generating", "generating_hung"} =>
            \A k \in 1..Len(responses[r]) :
                EventsOfTurn(r, "multi_agent_response", responses[r][k].order) # {}

----------------------------------------------------------------------------
(* Connections (SpecConn) *)

\* a step that removes a client from active_connections: disconnect
C22_Step ==
    \A c \in Clients :
        (conn[c].active /\ ~conn'[c].active) =>
            /\ ~conn'[c].session
            /\ ~conn'[c].asr_task
            /\ ~conn'[c].result_queue
            /\ ~conn'[c].result_processor
            /\ \A d \in Clients \ {c} : conn'[d] = conn[d]

\* C22: a send failure to a client or the disconnect of a client removes the
\* client's own entries from the per-connection maps and cancels its own
\* tasks; the entries, the tasks and the Round of every other client are
\* as before.
C22_FailuresStayLocal == [][C22_Step]_vars

\* a send to A has failed during a Round of A, while B is connected with its
\* recognition task, its result processor and a Round in flight
C22_Witness ==
    /\ ~conn["A"].active
    /\ conn["A"].round = "chat"
    /\ conn["B"].active
    /\ conn["B"].asr_task
    /\ conn["B"].result_processor
    /\ conn["B"].round = "asr"

----------------------------------------------------------------------------
(* Generation of ephemeral personas (SpecGen) *)

\* neither the direct parse nor the salvage has given descriptors
ParseAndSalvageFailed(backend) ==
    /\ backend.outcome = "content"
    /\ backend.direct.kind = "JSONDecodeError"
    /\ backend.salvage.kind \in {"JSONDecodeError", "no_braces"}

\* C23: generate_mentors_for_topic never raises to its caller; whatever the
\* backend does (valid, truncated or malformed output, exception) it returns
\* a non-empty list of persona descriptors, and when the parse and the
\* salvage both fail, the list is the template set chosen by keyword match
\* against the topic of the request.
C23_GenerationAlwaysReturnsPersonas ==
    gen.returned =>
        /\ ~gen.raised
        /\ gen.result # <<>>
        /\ ParseAndSalvageFailed(gen.backend) =>
              gen.result = generate_fallback_mentors(gen.topic)

----------------------------------------------------------------------------
(* Generation context and order of the Turns (SpecTurns) *)

----------------------------------------------------------------------------
(* End of a Round (Spec) *)

\* the events with which the synthesis of a Turn ends
TerminalAudioTypes == {"multi_agent_tts_complete", "multi_agent_tts_error"}

\* C25: the round-complete event is sent once per Round: never before the
\* Round is over, once when it is over, and never twice; every Turn of the
\* Round has received its terminal audio event (audio-complete or per-turn
\* error) before it, and its turn count is the number of persona text events
\* sent in the Round.
C25_RoundCompleteOnceAtEnd ==
    \A r \in Runners :
        LET completes == EventsOf(r, "multi_agent_processing_complete")
        IN  /\ Cardinality(completes) = IF pc[r] = "done" THEN 1 ELSE 0
            /\ \A p \in completes :
                  /\ \A k \in 1..Len(responses[r]) :
                        \E i \in 1..(p - 1) :
                           /\ sent[r][i].type \in TerminalAudioTypes
                           /\ sent[r][i].order = responses[r][k].order
                  /\ sent[r][p].chunk_index =
                        Cardinality(EventsOf(r, "multi_agent_response"))

\* a Round of two Turns is over, the synthesis of one Turn has failed and
\* that of the other has completed
C25_Witness ==
    /\ pc["chat"] = "done"
    /\ Len(responses["chat"]) = 2
    /\ EventsOf("chat", "multi_agent_processing_complete") # {}
    /\ EventsOf("chat", "multi_agent_tts_error") # {}
    /\ EventsOf("chat", "multi_agent_tts_complete") # {}


\* C26: within a Round the order indices of the Turns start at 1 with the
\* lead speaker and are strictly increasing, both in the order in which the
\* Turns are generated and in the order in which their text events are sent.
C26_OrderIndicesIncrease ==
    \A r \in Runners :
        LET resps == responses[r]
            texts == EventsOf(r, "multi_agent_response")
        IN  /\ resps # <<>> => resps[1].order = 1
            /\ (resps # <<>> /\ speaking_order[r] # <<>>) =>
                  resps[1].agent_id = speaking_order[r][1]
            /\ \A i, j \in 1..Len(resps) :
                  i < j => resps[i].order < resps[j].order
            /\ \A i \in texts :
                  (\A j \in texts : i <= j) => sent[r][i].order = 1
            /\ \A i, j \in texts :
                  i < j => sent[r][i].order < sent[r][j].order

\* the text events of a Round of three Turns have been sent; one candidate
\* after the lead speaker was passed over, so the indices are not consecutive
C26_Witness ==
    /\ pc["chat"] = "texts"
    /\ Len(responses["chat"]) = 3
    /\ tidx["chat"] > Len(responses["chat"])
    /\ skipped["chat"] = {2}

----------------------------------------------------------------------------
(* Registration and cleanup of ephemeral personas (SpecRegistry) *)

\* a generation step: the ids it gives the session are new keys
C27_Step ==
    (call'.op = "generate" /\ call'.session_id \in DOMAIN dynamic_mentors') =>
        Range(dynamic_mentors'[call'.session_id]) \cap agents = {}

\* C27: registration of ephemeral personas is purely additive: every id given
\* to a generated persona is a key that is not in the registry at that time,
\* so that no registered persona is overwritten, neither by a request of
\* another session nor by a repeated request of the same session.
C27_RegistrationIsAdditive == [][C27_Step]_vars

\* a cleanup step: the personas of the other sessions and the static ones
\* stay as they are
C28_Step ==
    call'.op = "cleanup" =>
        /\ Statics \subseteq agents'
        /\ \A t \in DOMAIN dynamic_mentors \ {call'.session_id} :
              /\ t \in DOMAIN dynamic_mentors'
              /\ dynamic_mentors'[t] = dynamic_mentors[t]
              /\ \A a \in Range(dynamic_mentors[t]) \cap agents :
                    /\ a \in agents'
                    /\ a \in enabled' <=> a \in enabled
                    /\ agent_session'[a] = agent_session[a]

\* C28: cleanup of a session removes only ids that session owns: every static
\* persona and every ephemeral persona owned by another session is in the
\* registry afterwards, unchanged, whoever asked for the cleanup.
C28_CleanupKeepsOthers == [][C28_Step]_vars

----------------------------------------------------------------------------
(* Candidates of a Round (Spec) *)

\* the start of a Round in a session that has a selection and a pool
C29_Step ==
    \A r \in Runners :
        (/\ pc[r] = "idle"
         /\ pc'[r] = "conversation"
         /\ selected_mentors # <<>>
         /\ session_dynamic # <<>>) => sel'[r] = selected_mentors

\* C29: when a session has both an explicit persona selection and an
\* ephemeral persona pool, the candidates of a Round are the explicitly
\* selected personas, not the pool.
C29_SelectionBeforePool == [][C29_Step]_vars

----------------------------------------------------------------------------
(* Session histories (SpecHistory) *)

\* s is t or t with entries added at its end
IsPrefix(s, t) == Len(s) <= Len(t) /\ SubSeq(t, 1, Len(s)) = s

\* a step of SpecHistory
C30_Step ==
    /\ \A s \in DOMAIN conversation_sessions :
          /\ s \in DOMAIN conversation_sessions'
          /\ IsPrefix(conversation_sessions[s], conversation_sessions'[s])
    /\ \A c \in Conversations :
          LET before == session_messages(conversation_sessions,
                                         conv'[c].session_id)
              after == session_messages(conversation_sessions',
                                        conv'[c].session_id)
          IN  /\ (conv[c].pc = "idle" /\ conv'[c].pc # "idle") =>
                    after = Append(before, UserMessage(conv'[c].user_message))
              /\ (conv[c].pc = "generating" /\ conv'[c] # conv[c]) =>
                    /\ Len(conv'[c].responses) = Len(conv[c].responses) + 1
                    /\ LET turn == conv'[c].responses[Len(conv'[c].responses)]
                       IN  /\ after = Append(before,
                                        AgentMessage(turn.agent_id, turn.content))
                           /\ \A k \in 1..Len(conv[c].responses) :
                                 conv[c].responses[k].order < turn.order

\* C30: under Round processing the history of a session is append-only: a
\* Round appends the user's message and then one persona message for each
\* Turn it generates, in turn order, and no Round of the same or of another
\* session changes or removes an entry that is in a history.
C30_HistoryAppendOnly == [][C30_Step]_vars

\* two Rounds of one session have run at the same time: the second user
\* message lies between the first one and the reply to it, and both Rounds
\* have written their two Turns
C30_Witness ==
    /\ conv["c1"].pc = "returned"
    /\ conv["c2"].pc = "returned"
    /\ conv["c1"].session_id = conv["c2"].session_id
    /\ Len(conv["c1"].responses) = 2
    /\ Len(conv["c2"].responses) = 2
    /\ LET h == conversation_sessions[conv["c1"].session_id]
       IN  /\ Len(h) = 6
           /\ h[1].type = "user"
           /\ h[2].type = "user"

----------------------------------------------------------------------------
(* Clearing a session's history (SpecClear) *)

\* the personas whose replies the history of a session holds
personas_of(messages) ==
    {messages[i].agent_id : i \in 1..Len(messages)} \ {"user"}

\* a step that clears the history of a session leaves the histories of the
\* other sessions and of the personas they have talked to as they are
C31_Step ==
    \A s \in DOMAIN conversation_sessions :
        (conversation_sessions[s] # <<>> /\ conversation_sessions'[s] = <<>>)
        => \A t \in DOMAIN conversation_sessions \ {s} :
              /\ conversation_sessions'[t] = conversation_sessions[t]
              /\ \A a \in personas_of(conversation_sessions[t]) :
                    conversation_history'[a] = conversation_history[a]

\* C31: sessions share only the registry: clearing the history of session S
\* changes no other session's history and no conversation state held by
\* the personas other sessions use.
C31_ClearIsLocal == [][C31_Step]_vars

----------------------------------------------------------------------------
(* Candidates of a Round without selection and pool (SpecPool) *)

\* the step that determines the speaking order of a Round whose session has
\* no selection and owns no ephemeral persona schedules no ephemeral persona
\* of another session
C32_Step ==
    \A r \in Runners :
        (/\ pc[r] = "conversation"
         /\ pc'[r] # "conversation"
         /\ sel[r] = <<>>
         /\ ClientSession \notin DOMAIN dynamic_mentors)
        => \A i \in 1..Len(speaking_order'[r]) :
              LET a == speaking_order'[r][i]
              IN  a \in DOMAIN agent_session =>
                     agent_session[a] = ClientSession

\* C32: a Round of session S that has no explicit selection and no ephemeral
\* pool of its own never schedules an ephemeral persona owned by a different
\* session.
C32_NoForeignEphemeral == [][C32_Step]_vars

----------------------------------------------------------------------------
(* Selections with repeated ids (SpecRepeated) *)

\* C33: no persona takes more than one Turn in a Round: the speaking order
\* returned by determine_speaking_order contains no id twice, also when the
\* selection sent by the client lists the same id more than once.
C33_OrderHasNoRepeats == dso.returned => NoDup(dso.result)

----------------------------------------------------------------------------
(* Failed generation requests (SpecPartial) *)

\* a generation request that returns the empty list leaves the registry and
\* the maps of the sessions as they were
C34_Step ==
    call'.op = "generate_failed" =>
        /\ agents' = agents
        /\ enabled' = enabled
        /\ agent_session' = agent_session
        /\ dynamic_mentors' = dynamic_mentors
        /\ session_topics' = session_topics

\* C34: generation of ephemeral personas is all-or-nothing: when
\* generate_dynamic_mentors fails part-way and returns an empty list, the
\* registry, the ownership map and the topic map are as before the call.
C34_FailedGenerationChangesNothing == [][C34_Step]_vars

----------------------------------------------------------------------------
(* Disconnect and ephemeral personas (SpecLeave) *)

\* the registered personas whose config names the session as their owner
owned_by(session_id) ==
    {a \in agents \cap DOMAIN agent_session : agent_session[a] = session_id}

\* C35: disconnecting a client releases everything the connection created:
\* after the disconnect of a connection over which ephemeral personas were
\* generated, none of those personas remains in the registry.
C35_DisconnectReleasesPersonas ==
    \A c \in Clients : ~conn[c].active => owned_by(conn_session_id(c)) = {}

----------------------------------------------------------------------------
(* Audio chunks of one Turn (SpecStream) *)

\* C36: within one Turn every audio chunk the synthesis backend has produced
\* is sent to the client once and in the order of production, with the chunk
\* sequence numbers 1, 2, 3, ... without gaps, chunks that arrive between the
\* last poll of the loop and the completion signal included, and the
\* audio-complete event reports the number of chunks sent.
C36_EveryChunkSentOnce ==
    tts.pc = "done" =>
        /\ Len(tts.sent) = tts.audio_chunks
        /\ \A k \in 1..Len(tts.sent) :
              /\ tts.sent[k].chunk = k
              /\ tts.sent[k].chunk_index = k
        /\ tts.total_chunks = Len(tts.sent)

----------------------------------------------------------------------------
(* Persona pools of the users (SpecUsers) *)

\* C37: for every user u, get_user_agent_pool(u) returns a pool that holds
\* the static personas, whether u was first seen through get_or_create_user /
\* create_user_session or through get_user_agent_pool itself, in any order
\* of those calls.
C37_PoolHasStatics ==
    mum.call.op = "get_user_agent_pool" => Statics \subseteq mum.call.pool

----------------------------------------------------------------------------
(* The two maps of the registry (SpecMaps) *)

\* C38: in every state a task can observe, the map of persona instances and
\* the map of configurations have the same keys: register, unregister and
\* cleanup update both maps with no suspension point in between.
C38_MapsHaveSameKeys == agent_configs = agents

\* an ephemeral persona is registered after a registered persona has been
\* unregistered
C38_Witness ==
    /\ call.op = "unregister"
    /\ call.changed
    /\ agents \ Statics # {}
    /\ DOMAIN dynamic_mentors # {}

====
